---- MODULE Spec2Model ----
(***************************************************************************)
(* A model of the `hot` buffer-block pool (src/src/buffer_block.rs), the   *)
(* persistent ResourceSet (src/src/resource.rs) and the Device operations  *)
(* that mutate them (src/src/device.rs).                                   *)
(*                                                                         *)
(* Both containers are generational_arena::Arena values.  The arena is     *)
(* modelled operation by operation as the crate (0.2 series) implements    *)
(* it: a vector of Free/Occupied entries, an intrusive free list and one   *)
(* arena-wide generation counter that remove() and a non-empty drain()     *)
(* increment.                                                              *)
(***************************************************************************)
EXTENDS Integers, Sequences, FiniteSets, Bags, TLC

\* ------------------------------------------------------------------------
\* Bounds of the model.
\* ------------------------------------------------------------------------
\* Number of allocator-pools the device can hold before create_pool fails.
MaxPools == 2
\* Number of buffers the device creates before create_buffer fails.
MaxBuffers == 2
\* Number of state-changing calls in one run.
MaxOps == 6

\* ------------------------------------------------------------------------
\* Option<T>
\* ------------------------------------------------------------------------
None == <<>>
Some(v) == <<v>>
IsSome(o) == o # <<>>
Unwrap(o) == o[1]

\* ------------------------------------------------------------------------
\* generational_arena::Arena<T>
\* ------------------------------------------------------------------------
\* Arena::new() is with_capacity(DEFAULT_CAPACITY).
DEFAULT_CAPACITY == 4

Index(i, g) == [index |-> i, generation |-> g]

FreeEntry(next) ==
    [occ |-> FALSE, next_free |-> next, generation |-> 0, value |-> None]

OccupiedEntry(g, v) ==
    [occ |-> TRUE, next_free |-> None, generation |-> g, value |-> Some(v)]

\* Arena::reserve: append n free entries, chained in index order, the last
\* one pointing at the old head of the free list.
ArenaReserve(a, n) ==
    LET start == Len(a.items)
        ext == [k \in 1..n |->
                  IF k = n THEN FreeEntry(a.free_list_head)
                           ELSE FreeEntry(Some(start + k))]
    IN  [a EXCEPT !.items = a.items \o ext,
                  !.free_list_head = Some(start)]

ArenaWithCapacity(n) ==
    ArenaReserve([items |-> <<>>, generation |-> 0,
                  free_list_head |-> None, len |-> 0],
                 IF n < 1 THEN 1 ELSE n)

ArenaNew == ArenaWithCapacity(DEFAULT_CAPACITY)

\* Arena::try_insert on an arena whose free list is not empty.
ArenaTryInsert(a, v) ==
    LET i == Unwrap(a.free_list_head)
    IN  [arena |-> [a EXCEPT !.items[i + 1] = OccupiedEntry(a.generation, v),
                             !.free_list_head = a.items[i + 1].next_free,
                             !.len = a.len + 1],
         idx   |-> Index(i, a.generation)]

\* Arena::insert: try_insert, and on a full arena insert_slow_path, which
\* doubles the capacity (or reserves one slot when the capacity is zero).
ArenaInsert(a, v) ==
    IF IsSome(a.free_list_head)
    THEN ArenaTryInsert(a, v)
    ELSE ArenaTryInsert(
             ArenaReserve(a, IF Len(a.items) = 0 THEN 1 ELSE Len(a.items)), v)

\* Arena::get / Arena::get_mut: the entry at idx.index, if it is occupied
\* with idx.generation.
ArenaGet(a, idx) ==
    IF /\ idx.index < Len(a.items)
       /\ a.items[idx.index + 1].occ
       /\ a.items[idx.index + 1].generation = idx.generation
    THEN a.items[idx.index + 1].value
    ELSE None

\* Arena::remove: frees the entry, pushes it on the free list and
\* increments the arena's generation.
ArenaRemove(a, idx) ==
    IF IsSome(ArenaGet(a, idx))
    THEN [arena |-> [a EXCEPT !.items[idx.index + 1] = FreeEntry(a.free_list_head),
                              !.generation = a.generation + 1,
                              !.free_list_head = Some(idx.index),
                              !.len = a.len - 1],
          value |-> ArenaGet(a, idx)]
    ELSE [arena |-> a, value |-> None]

\* The occupied entries of the arena in index order, as <<index, value>> pairs.
RECURSIVE OccupiedFrom(_, _)
OccupiedFrom(items, k) ==
    IF k > Len(items) THEN <<>>
    ELSE IF items[k].occ
         THEN <<[idx |-> Index(k - 1, items[k].generation),
                 value |-> Unwrap(items[k].value)]>> \o OccupiedFrom(items, k + 1)
         ELSE OccupiedFrom(items, k + 1)

\* Arena::drain: takes every entry out of the vector; the generation is
\* incremented when the arena was not empty, the free list is cleared.
ArenaDrain(a) ==
    [arena   |-> [items |-> <<>>,
                  generation |-> IF a.len # 0 THEN a.generation + 1
                                              ELSE a.generation,
                  free_list_head |-> None,
                  len |-> 0],
     drained |-> OccupiedFrom(a.items, 1)]

ArenaValues(a) == {e.value : e \in {OccupiedFrom(a.items, 1)[k] : k \in 1..a.len}}

ArenaIndices(a) == {e.idx : e \in {OccupiedFrom(a.items, 1)[k] : k \in 1..a.len}}

\* ------------------------------------------------------------------------
\* Device: memory types and the allocation gateway (vk_mem::Allocator)
\* ------------------------------------------------------------------------
\* Device::memory_properties.memory_types, by memory-type index (0-based).
MemoryTypes ==
    << {"DEVICE_LOCAL"}, {"DEVICE_LOCAL", "HOST_VISIBLE"} >>

MemoryTypeIndices == 0..(Len(MemoryTypes) - 1)

is_memory_type_host_visible(type_index) ==
    "HOST_VISIBLE" \in MemoryTypes[type_index + 1]

BufferCreateInfo(domain, size, usage) ==
    [domain |-> domain, size |-> size, usage |-> usage]

\* allocation_info_from_buffer_create_info that makes host-visibility a
\* requirement of DeviceDynamic instead of a preference.
allocation_info_dynamic_requires_host_visible(create_info) ==
    [flags |-> {"MAPPED"},
     required_flags |->
        CASE create_info.domain = "Device" -> {"DEVICE_LOCAL"}
          [] create_info.domain = "DeviceDynamic" -> {"DEVICE_LOCAL", "HOST_VISIBLE"}
          [] create_info.domain = "Host" -> {"HOST_VISIBLE"}
          [] create_info.domain = "Readback" -> {"HOST_VISIBLE", "HOST_CACHED"},
     preferred_flags |-> {}]

allocation_info_from_buffer_create_info(create_info) ==
    [flags |-> {"MAPPED"},
     required_flags |->
        CASE create_info.domain = "Device" -> {"DEVICE_LOCAL"}
          [] create_info.domain = "DeviceDynamic" -> {"DEVICE_LOCAL"}
          [] create_info.domain = "Host" -> {"HOST_VISIBLE"}
          [] create_info.domain = "Readback" -> {"HOST_VISIBLE", "HOST_CACHED"},
     preferred_flags |->
        IF create_info.domain = "DeviceDynamic" THEN {"HOST_VISIBLE"} ELSE {}]

\* What Device::find_memory_type_index_for_buffer_info hands to the
\* allocator for a create-info: the buffer info (size and usage) and the
\* allocation info derived from the domain.
MemoryTypeQuery(create_info) ==
    [size |-> create_info.size,
     usage |-> create_info.usage,
     alloc_info |-> allocation_info_from_buffer_create_info(create_info)]

\* The answers the allocator may give to a memory-type query: an error
\* (None), or any memory type that has the required flags of the query.
AllocatorAnswers(query) ==
    {None} \cup
    {Some(t) : t \in {u \in MemoryTypeIndices :
        query.alloc_info.required_flags \subseteq MemoryTypes[u + 1]}}

\* Device::find_memory_type_index_for_buffer_info: the query built from the
\* create-info, answered by the allocator.
find_memory_type_index_for_buffer_info(create_info) ==
    AllocatorAnswers(MemoryTypeQuery(create_info))

\* The gateway's own state: the size and the bytes in use of every
\* allocator-pool it created (pool ids are 1, 2, ...), and the number of
\* buffers it created (buffer ids are 1, 2, ...).
GatewayInit ==
    [pool_type |-> <<>>, pool_size |-> <<>>, pool_used |-> <<>>, buffers |-> 0]

\* Allocator::create_pool with max_block_count = 1: fails when the device
\* is exhausted or when the caller's environment says so.
GatewayCreatePool(gw, memory_type_index, block_size, ok) ==
    IF ok /\ Len(gw.pool_size) < MaxPools
    THEN [ok |-> TRUE,
          gw |-> [gw EXCEPT !.pool_type = Append(gw.pool_type, memory_type_index),
                            !.pool_size = Append(gw.pool_size, block_size),
                            !.pool_used = Append(gw.pool_used, 0)],
          pool |-> Len(gw.pool_size) + 1]
    ELSE [ok |-> FALSE, gw |-> gw, pool |-> 0]

\* Allocator::create_buffer, from an allocator-pool (linear, one block) or
\* from general device memory (pool = None).
GatewayCreateBuffer(gw, create_info, pool, ok) ==
    IF /\ ok
       /\ gw.buffers < MaxBuffers
       /\ IsSome(pool) =>
            gw.pool_used[Unwrap(pool)] + create_info.size
                <= gw.pool_size[Unwrap(pool)]
    THEN [ok |-> TRUE,
          gw |-> [gw EXCEPT
                    !.buffers = gw.buffers + 1,
                    !.pool_used = IF IsSome(pool)
                                  THEN [gw.pool_used EXCEPT ![Unwrap(pool)] =
                                            @ + create_info.size]
                                  ELSE gw.pool_used],
          buffer |-> gw.buffers + 1]
    ELSE [ok |-> FALSE, gw |-> gw, buffer |-> 0]

\* Allocator::destroy_buffer.
GatewayDestroyBuffer(gw, buf, ok) ==
    IF ok
    THEN [ok |-> TRUE,
          gw |-> [gw EXCEPT !.pool_used =
                    IF IsSome(buf.pool)
                    THEN [gw.pool_used EXCEPT ![Unwrap(buf.pool)] =
                              @ - buf.create_info.size]
                    ELSE gw.pool_used]]
    ELSE [ok |-> FALSE, gw |-> gw]

\* ------------------------------------------------------------------------
\* Owned buffers
\* ------------------------------------------------------------------------
OwnedBuffer_new(buffer, pool, create_info, tag) ==
    [buffer |-> buffer, pool |-> pool, create_info |-> create_info, tag |-> tag]

\* The explicit destroy of an owned buffer: hands the allocation back to
\* the gateway, which may refuse.
OwnedBuffer_destroy(gw, buf, ok) == GatewayDestroyBuffer(gw, buf, ok)

\* Tag: an allocated String or a &'static str; Display writes the text.
Tag_Allocated(text) == [kind |-> "Allocated", text |-> text]

Tag_Static(text) == [kind |-> "Static", text |-> text]

Tag_fmt(tag) == tag.text

\* NoDrop::new, from_string, from_str, default.
NoDrop_new(tag) == [tag |-> tag]

NoDrop_from_string(text) == NoDrop_new(Tag_Allocated(text))

NoDrop_from_str(text) == NoDrop_new(Tag_Static(text))

NoDrop_default == NoDrop_from_str("anonymous")

\* NoDrop::destroy: drops the tag and forgets the value, so that Drop for
\* NoDrop never runs: no panic.
NoDrop_destroy(nodrop) == None

\* Drop for NoDrop that lets the value go silently.
NoDrop_drop_silent(nodrop) == None

\* Drop for NoDrop: the panic and its message.
NoDrop_drop(nodrop) ==
    Some(<<"NoDrop item with tag", Tag_fmt(nodrop.tag), "was dropped!">>)

\* The tag in the diagnostics of a buffer.
TagOf(buf) == IF IsSome(buf.tag) THEN Tag_fmt(Unwrap(buf.tag)) ELSE "untagged"

\* The NoDrop an owned buffer carries.
OwnedBuffer_nodrop(buf) ==
    IF IsSome(buf.tag) THEN NoDrop_new(Unwrap(buf.tag))
    ELSE NoDrop_from_str("untagged")

\* ------------------------------------------------------------------------
\* OwnedBufferBlock
\* ------------------------------------------------------------------------
BufferBlock(pool_uuid, idx) == [pool_uuid |-> pool_uuid, idx |-> idx]

BufferBlockBuffer(block, gpu_idx, cpu_idx) ==
    [block |-> block, gpu_idx |-> gpu_idx, cpu_idx |-> cpu_idx]

OwnedBufferBlock_new(self_id, gpu, cpu, allocated_buffers, usage, domain, size, tag) ==
    [self_id |-> self_id,
     gpu |-> gpu,
     cpu |-> cpu,
     allocated_buffers |-> allocated_buffers,
     usage |-> usage,
     domain |-> domain,
     size |-> size,
     nodrop |-> IF IsSome(tag) THEN NoDrop_new(Unwrap(tag))
                ELSE NoDrop_from_str("Generic OwnedBufferBlock")]

\* get_gpu_buffer without the comparison of the handle's block with the
\* Block's self-identity.
get_gpu_buffer_no_block_check(block, buffer) ==
    IF ~IsSome(block.self_id)
    THEN [panic |-> TRUE, value |-> None]
    ELSE [panic |-> FALSE,
          value |-> ArenaGet(block.allocated_buffers, buffer.gpu_idx)]

\* get_gpu_buffer / get_gpu_buffer_mut.  self_id.unwrap() panics on a block
\* that has no self-identity; `panic` reports that outcome.
get_gpu_buffer(block, buffer) ==
    IF ~IsSome(block.self_id)
    THEN [panic |-> TRUE, value |-> None]
    ELSE [panic |-> FALSE,
          value |-> IF buffer.block = Unwrap(block.self_id)
                    THEN ArenaGet(block.allocated_buffers, buffer.gpu_idx)
                    ELSE None]

\* get_cpu_buffer that looks up the GPU index of the handle.
get_cpu_buffer_by_gpu_idx(block, buffer) ==
    IF ~IsSome(block.self_id)
    THEN [panic |-> TRUE, value |-> None]
    ELSE [panic |-> FALSE,
          value |-> IF buffer.block = Unwrap(block.self_id) /\ IsSome(buffer.cpu_idx)
                    THEN ArenaGet(block.allocated_buffers, buffer.gpu_idx)
                    ELSE None]

\* get_cpu_buffer / get_cpu_buffer_mut.
get_cpu_buffer(block, buffer) ==
    IF ~IsSome(block.self_id)
    THEN [panic |-> TRUE, value |-> None]
    ELSE [panic |-> FALSE,
          value |-> IF buffer.block = Unwrap(block.self_id) /\ IsSome(buffer.cpu_idx)
                    THEN ArenaGet(block.allocated_buffers, Unwrap(buffer.cpu_idx))
                    ELSE None]

\* allocate_buffer that records the CPU staging buffer under the create-info
\* of the GPU buffer (the outer create_info instead of the shadowing one).
allocate_buffer_staging_outer_info(block, gw, size, tag, gpu_ok, cpu_ok) ==
    LET create_info == BufferCreateInfo(block.domain, size, block.usage)
        g == GatewayCreateBuffer(gw, create_info, Some(block.gpu), gpu_ok)
        gins == ArenaInsert(block.allocated_buffers,
                    OwnedBuffer_new(g.buffer, Some(block.gpu), create_info, tag))
        staging_info == BufferCreateInfo("Host", size, {"TRANSFER_SRC"})
        c == GatewayCreateBuffer(g.gw, staging_info, block.cpu, cpu_ok)
        cins == ArenaInsert(gins.arena,
                    OwnedBuffer_new(c.buffer, block.cpu, create_info, tag))
        failed(b, w) == [ok |-> FALSE, panic |-> FALSE, block |-> b, gw |-> w,
                         handle |-> None]
    IN  IF ~g.ok THEN failed(block, gw)
        ELSE IF IsSome(block.cpu) /\ ~c.ok
        THEN failed([block EXCEPT !.allocated_buffers = gins.arena], g.gw)
        ELSE LET arena == IF IsSome(block.cpu) THEN cins.arena ELSE gins.arena
                 w == IF IsSome(block.cpu) THEN c.gw ELSE g.gw
                 cpu_idx == IF IsSome(block.cpu) THEN Some(cins.idx) ELSE None
                 b == [block EXCEPT !.allocated_buffers = arena]
             IN  IF ~IsSome(block.self_id)
                 THEN [ok |-> FALSE, panic |-> TRUE, block |-> b, gw |-> w,
                       handle |-> None]
                 ELSE [ok |-> TRUE, panic |-> FALSE, block |-> b, gw |-> w,
                       handle |-> Some(BufferBlockBuffer(Unwrap(block.self_id),
                                                         gins.idx, cpu_idx))]

\* allocate_buffer.  gpu_ok and cpu_ok are the gateway's answers to the two
\* create_buffer calls.  The GPU buffer is inserted into the arena before
\* the CPU staging buffer is created.
allocate_buffer(block, gw, size, tag, gpu_ok, cpu_ok) ==
    LET create_info == BufferCreateInfo(block.domain, size, block.usage)
        g == GatewayCreateBuffer(gw, create_info, Some(block.gpu), gpu_ok)
        gins == ArenaInsert(block.allocated_buffers,
                    OwnedBuffer_new(g.buffer, Some(block.gpu), create_info, tag))
        staging_info == BufferCreateInfo("Host", size, {"TRANSFER_SRC"})
        c == GatewayCreateBuffer(g.gw, staging_info, block.cpu, cpu_ok)
        cins == ArenaInsert(gins.arena,
                    OwnedBuffer_new(c.buffer, block.cpu, staging_info, tag))
        failed(b, w) == [ok |-> FALSE, panic |-> FALSE, block |-> b, gw |-> w,
                         handle |-> None]
    IN  IF ~g.ok THEN failed(block, gw)
        ELSE IF IsSome(block.cpu) /\ ~c.ok
        THEN failed([block EXCEPT !.allocated_buffers = gins.arena], g.gw)
        ELSE LET arena == IF IsSome(block.cpu) THEN cins.arena ELSE gins.arena
                 w == IF IsSome(block.cpu) THEN c.gw ELSE g.gw
                 cpu_idx == IF IsSome(block.cpu) THEN Some(cins.idx) ELSE None
                 b == [block EXCEPT !.allocated_buffers = arena]
             IN  IF ~IsSome(block.self_id)
                 THEN [ok |-> FALSE, panic |-> TRUE, block |-> b, gw |-> w,
                       handle |-> None]
                 ELSE [ok |-> TRUE, panic |-> FALSE, block |-> b, gw |-> w,
                       handle |-> Some(BufferBlockBuffer(Unwrap(block.self_id),
                                                         gins.idx, cpu_idx))]

\* The gateway after destroying the first n drained buffers.
RECURSIVE DestroyAll(_, _, _)
DestroyAll(gw, drained, n) ==
    IF n = 0 THEN gw
    ELSE OwnedBuffer_destroy(DestroyAll(gw, drained, n - 1), drained[n].value, TRUE).gw

\* reset that visits the buffers with iter() instead of drain(): it destroys
\* them and leaves their entries in the arena.
reset_without_drain(block, gw, fail_at) ==
    LET d == ArenaDrain(block.allocated_buffers)
        n == Len(d.drained)
    IN  IF fail_at = 0 \/ fail_at > n
        THEN [ok |-> TRUE, block |-> block, gw |-> DestroyAll(gw, d.drained, n),
              fatal |-> None, destroyed |-> {d.drained[k].value.buffer : k \in 1..n}]
        ELSE [ok |-> FALSE, block |-> block,
              gw |-> DestroyAll(gw, d.drained, fail_at - 1),
              fatal |-> None,
              destroyed |-> {d.drained[k].value.buffer : k \in 1..(fail_at - 1)}]

\* reset that destroys the buffers and then starts over with a new arena
\* instead of the drained one.
reset_fresh_arena(block, gw, fail_at) ==
    LET d == ArenaDrain(block.allocated_buffers)
        n == Len(d.drained)
        b == [block EXCEPT !.allocated_buffers = ArenaNew]
    IN  IF fail_at = 0 \/ fail_at > n
        THEN [ok |-> TRUE, block |-> b, gw |-> DestroyAll(gw, d.drained, n),
              fatal |-> None, destroyed |-> {d.drained[k].value.buffer : k \in 1..n}]
        ELSE [ok |-> FALSE, block |-> b,
              gw |-> DestroyAll(gw, d.drained, fail_at - 1),
              fatal |-> IF fail_at < n
                        THEN NoDrop_drop(OwnedBuffer_nodrop(d.drained[fail_at + 1].value))
                        ELSE None,
              destroyed |-> {d.drained[k].value.buffer : k \in 1..(fail_at - 1)}]

\* reset: drains the buffer arena and destroys the buffers in index order.
\* fail_at = 0: every destroy succeeds.  fail_at = k: the destroy of the
\* k-th drained buffer fails, reset returns the error at once, and the
\* buffers still in the drain iterator are dropped without destroy, which
\* is fatal when there is one.
reset(block, gw, fail_at) ==
    LET d == ArenaDrain(block.allocated_buffers)
        n == Len(d.drained)
        b == [block EXCEPT !.allocated_buffers = d.arena]
    IN  IF fail_at = 0 \/ fail_at > n
        THEN [ok |-> TRUE, block |-> b, gw |-> DestroyAll(gw, d.drained, n),
              fatal |-> None, destroyed |-> {d.drained[k].value.buffer : k \in 1..n}]
        ELSE [ok |-> FALSE, block |-> b,
              gw |-> DestroyAll(gw, d.drained, fail_at - 1),
              fatal |-> IF fail_at < n
                        THEN NoDrop_drop(OwnedBuffer_nodrop(d.drained[fail_at + 1].value))
                        ELSE None,
              destroyed |-> {d.drained[k].value.buffer : k \in 1..(fail_at - 1)}]

\* ------------------------------------------------------------------------
\* BufferBlockPool
\* ------------------------------------------------------------------------
\* AtomicUsize::load in the place of fetch_add: the counter is read and
\* left as it was.
AtomicUsize_load(value, n) == [ret |-> value, new |-> value]

\* AtomicUsize::fetch_add(n, SeqCst): one indivisible step that returns the
\* previous value and stores the sum.  (The sum wraps at usize::MAX, which
\* no run of a bounded number of constructions comes near.)
AtomicUsize_fetch_add(value, n) == [ret |-> value, new |-> value + n]

\* BufferBlockPool::new that keeps a CPU staging memory type whenever the
\* gateway names one, host-visible GPU memory or not.
BufferBlockPool_new_always_staging(uuid, block_size, usage, device_local, gpu_type, cpu_type) ==
    LET domain == IF device_local THEN "DeviceDynamic" ELSE "Host"
        usage2 == IF device_local THEN usage \cup {"TRANSFER_DST"} ELSE usage
        gpu_query == MemoryTypeQuery(BufferCreateInfo(domain, block_size, usage2))
        cpu_query == MemoryTypeQuery(BufferCreateInfo("Host", block_size, {"TRANSFER_SRC"}))
    IN  IF ~IsSome(gpu_type)
        THEN [ok |-> FALSE, pool |-> None, queries |-> <<gpu_query>>]
        ELSE IF ~is_memory_type_host_visible(Unwrap(gpu_type)) /\ ~IsSome(cpu_type)
        THEN [ok |-> FALSE, pool |-> None, queries |-> <<gpu_query, cpu_query>>]
        ELSE [ok |-> TRUE,
              queries |-> <<gpu_query, cpu_query>>,
              pool |-> Some(
                [uuid |-> uuid,
                 owned_blocks |-> ArenaNew,
                 recycled_blocks |-> <<>>,
                 gpu_memory_type_index |-> Unwrap(gpu_type),
                 cpu_memory_type_index |-> cpu_type,
                 device_local |-> device_local,
                 block_size |-> block_size,
                 domain |-> domain,
                 usage |-> usage2])]

\* BufferBlockPool::new that goes on without a CPU staging memory type when
\* the second resolution fails (.ok() in the place of `?`).
BufferBlockPool_new_ignores_cpu_error(uuid, block_size, usage, device_local, gpu_type, cpu_type) ==
    LET domain == IF device_local THEN "DeviceDynamic" ELSE "Host"
        usage2 == IF device_local THEN usage \cup {"TRANSFER_DST"} ELSE usage
        gpu_query == MemoryTypeQuery(BufferCreateInfo(domain, block_size, usage2))
        cpu_query == MemoryTypeQuery(BufferCreateInfo("Host", block_size, {"TRANSFER_SRC"}))
    IN  IF ~IsSome(gpu_type)
        THEN [ok |-> FALSE, pool |-> None, queries |-> <<gpu_query>>]
        ELSE [ok |-> TRUE,
              queries |-> IF ~is_memory_type_host_visible(Unwrap(gpu_type))
                          THEN <<gpu_query, cpu_query>> ELSE <<gpu_query>>,
              pool |-> Some(
                [uuid |-> uuid,
                 owned_blocks |-> ArenaNew,
                 recycled_blocks |-> <<>>,
                 gpu_memory_type_index |-> Unwrap(gpu_type),
                 cpu_memory_type_index |->
                    IF ~is_memory_type_host_visible(Unwrap(gpu_type))
                    THEN cpu_type ELSE None,
                 device_local |-> device_local,
                 block_size |-> block_size,
                 domain |-> domain,
                 usage |-> usage2])]

\* BufferBlockPool::new.  device_local is requires_device_local_memory,
\* uuid is the value fetch_add returned; gpu_type
\* and cpu_type are the gateway's answers to the memory-type queries (the
\* second one is asked only when the GPU type is not host-visible).
BufferBlockPool_new(uuid, block_size, usage, device_local, gpu_type, cpu_type) ==
    LET domain == IF device_local THEN "DeviceDynamic" ELSE "Host"
        usage2 == IF device_local THEN usage \cup {"TRANSFER_DST"} ELSE usage
        gpu_query == MemoryTypeQuery(BufferCreateInfo(domain, block_size, usage2))
        cpu_query == MemoryTypeQuery(BufferCreateInfo("Host", block_size, {"TRANSFER_SRC"}))
    IN  IF ~IsSome(gpu_type)
        THEN [ok |-> FALSE, pool |-> None, queries |-> <<gpu_query>>]
        ELSE IF ~is_memory_type_host_visible(Unwrap(gpu_type)) /\ ~IsSome(cpu_type)
        THEN [ok |-> FALSE, pool |-> None, queries |-> <<gpu_query, cpu_query>>]
        ELSE [ok |-> TRUE,
              queries |-> IF ~is_memory_type_host_visible(Unwrap(gpu_type))
                          THEN <<gpu_query, cpu_query>> ELSE <<gpu_query>>,
              pool |-> Some(
                [uuid |-> uuid,
                 owned_blocks |-> ArenaNew,
                 recycled_blocks |-> <<>>,
                 gpu_memory_type_index |-> Unwrap(gpu_type),
                 cpu_memory_type_index |->
                    IF ~is_memory_type_host_visible(Unwrap(gpu_type))
                    THEN cpu_type ELSE None,
                 device_local |-> device_local,
                 block_size |-> block_size,
                 domain |-> domain,
                 usage |-> usage2])]

\* get_block without the comparison of the pool ids.
get_block_no_pool_check(p, block) == ArenaGet(p.owned_blocks, block.idx)

\* get_block / get_block_mut.
get_block(p, block) ==
    IF block.pool_uuid # p.uuid THEN None
    ELSE ArenaGet(p.owned_blocks, block.idx)

\* allocate_block that always allocates the pool's default block size.
allocate_block_default_size(p, gw, min_size, tag, gpu_ok, cpu_ok) ==
    LET block_size == p.block_size
        g == GatewayCreatePool(gw, p.gpu_memory_type_index, block_size, gpu_ok)
        c == GatewayCreatePool(g.gw, Unwrap(p.cpu_memory_type_index), block_size, cpu_ok)
        needs_cpu == IsSome(p.cpu_memory_type_index)
        ins == ArenaInsert(p.owned_blocks,
                 OwnedBufferBlock_new(None, g.pool,
                                      IF needs_cpu THEN Some(c.pool) ELSE None,
                                      ArenaNew, p.usage, p.domain, block_size, tag))
        block == BufferBlock(p.uuid, ins.idx)
    IN  IF ~g.ok THEN [ok |-> FALSE, pool |-> p, gw |-> gw, handle |-> None]
        ELSE IF needs_cpu /\ ~c.ok
        THEN [ok |-> FALSE, pool |-> p, gw |-> g.gw, handle |-> None]
        ELSE [ok |-> TRUE,
              pool |-> [p EXCEPT !.owned_blocks =
                          [ins.arena EXCEPT
                             !.items[ins.idx.index + 1].value[1].self_id = Some(block)]],
              gw |-> IF needs_cpu THEN c.gw ELSE g.gw,
              handle |-> Some(block)]

\* allocate_block.  gpu_ok and cpu_ok are the gateway's answers to the two
\* create_pool calls.
allocate_block(p, gw, min_size, tag, gpu_ok, cpu_ok) ==
    LET block_size == IF min_size <= p.block_size THEN p.block_size ELSE min_size
        g == GatewayCreatePool(gw, p.gpu_memory_type_index, block_size, gpu_ok)
        c == GatewayCreatePool(g.gw, Unwrap(p.cpu_memory_type_index), block_size, cpu_ok)
        needs_cpu == IsSome(p.cpu_memory_type_index)
        ins == ArenaInsert(p.owned_blocks,
                 OwnedBufferBlock_new(None, g.pool,
                                      IF needs_cpu THEN Some(c.pool) ELSE None,
                                      ArenaNew, p.usage, p.domain, block_size, tag))
        block == BufferBlock(p.uuid, ins.idx)
    IN  IF ~g.ok THEN [ok |-> FALSE, pool |-> p, gw |-> gw, handle |-> None]
        ELSE IF needs_cpu /\ ~c.ok
        THEN [ok |-> FALSE, pool |-> p, gw |-> g.gw, handle |-> None]
        ELSE [ok |-> TRUE,
              pool |-> [p EXCEPT !.owned_blocks =
                          [ins.arena EXCEPT
                             !.items[ins.idx.index + 1].value[1].self_id = Some(block)]],
              gw |-> IF needs_cpu THEN c.gw ELSE g.gw,
              handle |-> Some(block)]

\* request_block that never looks at the recycle list.
request_block_always_allocates(p, gw, min_size, tag, gpu_ok, cpu_ok) ==
    allocate_block(p, gw, min_size, tag, gpu_ok, cpu_ok)

\* request_block that revives a recycled Block whatever size was asked for.
request_block_ignores_min_size(p, gw, min_size, tag, gpu_ok, cpu_ok) ==
    IF Len(p.recycled_blocks) > 0
    THEN LET n == Len(p.recycled_blocks)
             ins == ArenaInsert(p.owned_blocks, p.recycled_blocks[n])
             block == BufferBlock(p.uuid, ins.idx)
         IN  [ok |-> TRUE,
              pool |-> [p EXCEPT
                          !.recycled_blocks = SubSeq(p.recycled_blocks, 1, n - 1),
                          !.owned_blocks =
                             [ins.arena EXCEPT
                                !.items[ins.idx.index + 1].value[1].self_id = Some(block)]],
              gw |-> gw,
              handle |-> Some(block)]
    ELSE allocate_block(p, gw, min_size, tag, gpu_ok, cpu_ok)

\* request_block that revives the oldest recycled Block, not the newest.
request_block_takes_oldest(p, gw, min_size, tag, gpu_ok, cpu_ok) ==
    IF min_size <= p.block_size /\ Len(p.recycled_blocks) > 0
    THEN LET ins == ArenaInsert(p.owned_blocks, Head(p.recycled_blocks))
             block == BufferBlock(p.uuid, ins.idx)
         IN  [ok |-> TRUE,
              pool |-> [p EXCEPT
                          !.recycled_blocks = Tail(p.recycled_blocks),
                          !.owned_blocks =
                             [ins.arena EXCEPT
                                !.items[ins.idx.index + 1].value[1].self_id = Some(block)]],
              gw |-> gw,
              handle |-> Some(block)]
    ELSE allocate_block(p, gw, min_size, tag, gpu_ok, cpu_ok)

\* request_block that gives the revived Block the tag of the reviving call.
request_block_applies_tag(p, gw, min_size, tag, gpu_ok, cpu_ok) ==
    IF min_size <= p.block_size /\ Len(p.recycled_blocks) > 0
    THEN LET n == Len(p.recycled_blocks)
             ins == ArenaInsert(p.owned_blocks,
                        [p.recycled_blocks[n] EXCEPT !.nodrop =
                            IF IsSome(tag) THEN NoDrop_new(Unwrap(tag))
                            ELSE NoDrop_from_str("Generic OwnedBufferBlock")])
             block == BufferBlock(p.uuid, ins.idx)
         IN  [ok |-> TRUE,
              pool |-> [p EXCEPT
                          !.recycled_blocks = SubSeq(p.recycled_blocks, 1, n - 1),
                          !.owned_blocks =
                             [ins.arena EXCEPT
                                !.items[ins.idx.index + 1].value[1].self_id = Some(block)]],
              gw |-> gw,
              handle |-> Some(block)]
    ELSE allocate_block(p, gw, min_size, tag, gpu_ok, cpu_ok)

\* request_block that re-admits a recycled Block to the live arena without
\* storing the new handle in it.
request_block_no_self_id(p, gw, min_size, tag, gpu_ok, cpu_ok) ==
    IF min_size <= p.block_size /\ Len(p.recycled_blocks) > 0
    THEN LET n == Len(p.recycled_blocks)
             ins == ArenaInsert(p.owned_blocks, p.recycled_blocks[n])
             block == BufferBlock(p.uuid, ins.idx)
         IN  [ok |-> TRUE,
              pool |-> [p EXCEPT
                          !.recycled_blocks = SubSeq(p.recycled_blocks, 1, n - 1),
                          !.owned_blocks = ins.arena],
              gw |-> gw,
              handle |-> Some(block)]
    ELSE allocate_block(p, gw, min_size, tag, gpu_ok, cpu_ok)

\* request_block.
request_block(p, gw, min_size, tag, gpu_ok, cpu_ok) ==
    IF min_size <= p.block_size /\ Len(p.recycled_blocks) > 0
    THEN LET n == Len(p.recycled_blocks)
             ins == ArenaInsert(p.owned_blocks, p.recycled_blocks[n])
             block == BufferBlock(p.uuid, ins.idx)
         IN  [ok |-> TRUE,
              pool |-> [p EXCEPT
                          !.recycled_blocks = SubSeq(p.recycled_blocks, 1, n - 1),
                          !.owned_blocks =
                             [ins.arena EXCEPT
                                !.items[ins.idx.index + 1].value[1].self_id = Some(block)]],
              gw |-> gw,
              handle |-> Some(block)]
    ELSE allocate_block(p, gw, min_size, tag, gpu_ok, cpu_ok)

\* recycle_found that pushes the Block onto the recycle list and leaves it
\* in the live arena as well.
recycle_found_keeps_block(p, gw, block, fail_at) ==
    LET rem == ArenaRemove(p.owned_blocks, block.idx)
        r == reset(Unwrap(rem.value), gw, fail_at)
    IN  IF ~r.ok
        THEN [err |-> "DestructionError",
              pool |-> [p EXCEPT !.owned_blocks = rem.arena],
              gw |-> r.gw,
              fatal |-> IF IsSome(r.fatal) THEN r.fatal
                        ELSE NoDrop_drop(r.block.nodrop),
              destroyed |-> r.destroyed]
        ELSE [err |-> "Ok",
              pool |-> [p EXCEPT
                          !.owned_blocks.items[block.idx.index + 1].value[1] = r.block,
                          !.recycled_blocks = Append(p.recycled_blocks,
                              [r.block EXCEPT !.self_id = None])],
              gw |-> r.gw,
              fatal |-> None,
              destroyed |-> r.destroyed]

\* recycle_found that puts the Block at the front of the recycle list.
recycle_found_pushes_front(p, gw, block, fail_at) ==
    LET rem == ArenaRemove(p.owned_blocks, block.idx)
        r == reset(Unwrap(rem.value), gw, fail_at)
    IN  IF ~r.ok
        THEN [err |-> "DestructionError",
              pool |-> [p EXCEPT !.owned_blocks = rem.arena],
              gw |-> r.gw,
              fatal |-> IF IsSome(r.fatal) THEN r.fatal
                        ELSE NoDrop_drop(r.block.nodrop),
              destroyed |-> r.destroyed]
        ELSE [err |-> "Ok",
              pool |-> [p EXCEPT
                          !.owned_blocks = rem.arena,
                          !.recycled_blocks =
                              <<[r.block EXCEPT !.self_id = None]>> \o p.recycled_blocks],
              gw |-> r.gw,
              fatal |-> None,
              destroyed |-> r.destroyed]

\* recycle_found that pushes the Block onto the recycle list as it is,
\* without resetting it.
recycle_found_without_reset(p, gw, block, fail_at) ==
    LET rem == ArenaRemove(p.owned_blocks, block.idx)
    IN  [err |-> "Ok",
         pool |-> [p EXCEPT
                     !.owned_blocks = rem.arena,
                     !.recycled_blocks = Append(p.recycled_blocks,
                         [Unwrap(rem.value) EXCEPT !.self_id = None])],
         gw |-> gw,
         fatal |-> None,
         destroyed |-> {}]

\* recycle_found that resets the Block and then lets go of it instead of
\* pushing it onto the recycle list.
recycle_found_discards_block(p, gw, block, fail_at) ==
    LET rem == ArenaRemove(p.owned_blocks, block.idx)
        r == reset(Unwrap(rem.value), gw, fail_at)
    IN  [err |-> IF r.ok THEN "Ok" ELSE "DestructionError",
         pool |-> [p EXCEPT !.owned_blocks = rem.arena],
         gw |-> r.gw,
         fatal |-> IF r.ok THEN None
                   ELSE IF IsSome(r.fatal) THEN r.fatal
                   ELSE NoDrop_drop(r.block.nodrop),
         destroyed |-> r.destroyed]

\* The tail of recycle_block, once the handle is known to name a live Block
\* of the default size: remove it from the live arena, reset it, clear its
\* self-identity and push it onto the recycle list.  fail_at is the
\* gateway's behaviour during reset (see reset).  When reset fails, `?`
\* returns the error while owned_block, already removed from the arena,
\* goes out of scope undestroyed: its NoDrop is fatal.
recycle_found(p, gw, block, fail_at) ==
    LET rem == ArenaRemove(p.owned_blocks, block.idx)
        r == reset(Unwrap(rem.value), gw, fail_at)
    IN  IF ~r.ok
        THEN [err |-> "DestructionError",
              pool |-> [p EXCEPT !.owned_blocks = rem.arena],
              gw |-> r.gw,
              fatal |-> IF IsSome(r.fatal) THEN r.fatal
                        ELSE NoDrop_drop(r.block.nodrop),
              destroyed |-> r.destroyed]
        ELSE [err |-> "Ok",
              pool |-> [p EXCEPT
                          !.owned_blocks = rem.arena,
                          !.recycled_blocks = Append(p.recycled_blocks,
                              [r.block EXCEPT !.self_id = None])],
              gw |-> r.gw,
              fatal |-> None,
              destroyed |-> r.destroyed]

\* A call that returns err before it touched anything.
RecycleRefused(p, gw, err) ==
    [err |-> err, pool |-> p, gw |-> gw, fatal |-> None, destroyed |-> {}]

\* recycle_block without the comparison of the pool ids.
recycle_block_no_pool_check(p, gw, block, fail_at) ==
    IF ~IsSome(ArenaGet(p.owned_blocks, block.idx))
    THEN RecycleRefused(p, gw, "AlreadyFreed")
    ELSE IF Unwrap(ArenaGet(p.owned_blocks, block.idx)).size # p.block_size
    THEN RecycleRefused(p, gw, "WrongSize")
    ELSE recycle_found(p, gw, block, fail_at)

\* recycle_block without the comparison of the sizes.
recycle_block_no_size_check(p, gw, block, fail_at) ==
    IF block.pool_uuid # p.uuid THEN RecycleRefused(p, gw, "WrongPool")
    ELSE IF ~IsSome(ArenaGet(p.owned_blocks, block.idx))
    THEN RecycleRefused(p, gw, "AlreadyFreed")
    ELSE recycle_found(p, gw, block, fail_at)

\* recycle_block.
recycle_block(p, gw, block, fail_at) ==
    IF block.pool_uuid # p.uuid THEN RecycleRefused(p, gw, "WrongPool")
    ELSE IF ~IsSome(ArenaGet(p.owned_blocks, block.idx))
    THEN RecycleRefused(p, gw, "AlreadyFreed")
    ELSE IF Unwrap(ArenaGet(p.owned_blocks, block.idx)).size # p.block_size
    THEN RecycleRefused(p, gw, "WrongSize")
    ELSE recycle_found(p, gw, block, fail_at)

\* ------------------------------------------------------------------------
\* ResourceSet and the Device operations on it
\* ------------------------------------------------------------------------
BufferHandle(idx) == [idx |-> idx]

BufferViewHandle(idx) == [idx |-> idx]

ResourceSetNew == [buffers |-> ArenaNew, buffer_views |-> ArenaNew]

\* ResourceSet::get_buffer_view / get_buffer_view_mut.
get_buffer_view(rs, buffer_view) == ArenaGet(rs.buffer_views, buffer_view.idx)

\* get_buffer that looks the entry up by its index alone.
get_buffer_by_index(rs, buffer) ==
    IF /\ buffer.idx.index < Len(rs.buffers.items)
       /\ rs.buffers.items[buffer.idx.index + 1].occ
    THEN rs.buffers.items[buffer.idx.index + 1].value
    ELSE None

\* ResourceSet::get_buffer / get_buffer_mut.
get_buffer(rs, buffer) == ArenaGet(rs.buffers, buffer.idx)

Buffer_new(buffer, create_info, tag) ==
    [buffer |-> buffer, pool |-> None, create_info |-> create_info, tag |-> tag]

\* Drop for Buffer: gives the allocation back; an error is a panic.
Buffer_drop(gw, buf, ok) ==
    LET d == GatewayDestroyBuffer(gw, buf, ok)
    IN  [gw |-> d.gw,
         fatal |-> IF d.ok THEN None
                   ELSE Some(<<"Buffer errored on destruction", TagOf(buf)>>)]

\* The value of a function that returns nothing.
Unit == "()"

\* Device::destroy_buffer: removes the entry; the removed Buffer, if any,
\* is dropped at the end of the statement.  The Option that remove returns
\* is discarded and the function returns ().
Device_destroy_buffer(rs, gw, buffer, ok) ==
    LET rem == ArenaRemove(rs.buffers, buffer.idx)
        d == Buffer_drop(gw, Unwrap(rem.value), ok)
    IN  IF IsSome(rem.value)
        THEN [rs |-> [rs EXCEPT !.buffers = rem.arena], gw |-> d.gw,
              fatal |-> d.fatal, ret |-> Unit]
        ELSE [rs |-> rs, gw |-> gw, fatal |-> None, ret |-> Unit]

\* Device::destroy_buffer_view: removes the entry of the `buffers` arena at
\* the index of the view handle; the removed Buffer, if any, is dropped at
\* the end of the statement.  The `buffer_views` arena is not touched.
Device_destroy_buffer_view(rs, gw, buffer_view, ok) ==
    LET rem == ArenaRemove(rs.buffers, buffer_view.idx)
        d == Buffer_drop(gw, Unwrap(rem.value), ok)
    IN  IF IsSome(rem.value)
        THEN [rs |-> [rs EXCEPT !.buffers = rem.arena], gw |-> d.gw,
              fatal |-> d.fatal, ret |-> Unit]
        ELSE [rs |-> rs, gw |-> gw, fatal |-> None, ret |-> Unit]

\* Device::create_buffer.  has_data says whether initial_data is Some.
\* fuel is the number of create_buffer calls the gateway answers with
\* success before it answers with an error.  Without initial data the
\* function calls itself for a staging buffer, whose result it ignores.
\* calls is the number of activations of create_buffer the call made, its
\* own included.
RECURSIVE Device_create_buffer(_, _, _, _, _, _)
Device_create_buffer(rs, gw, create_info, tag, has_data, fuel) ==
    LET info == IF create_info.domain # "Host"
                THEN [create_info EXCEPT !.usage = @ \cup {"TRANSFER_DST"}]
                ELSE create_info
        g == GatewayCreateBuffer(gw, info, None, fuel > 0)
        ins == ArenaInsert(rs.buffers, Buffer_new(g.buffer, info, tag))
        rs1 == [rs EXCEPT !.buffers = ins.arena]
        staging_info == [info EXCEPT !.domain = "Host",
                                     !.usage = (@ \ {"TRANSFER_DST"}) \cup {"TRANSFER_SRC"}]
        inner == Device_create_buffer(rs1, g.gw, staging_info, tag, has_data, fuel - 1)
    IN  IF ~g.ok THEN [ok |-> FALSE, rs |-> rs, gw |-> gw, handle |-> None, calls |-> 1]
        ELSE IF has_data
        THEN [ok |-> TRUE, rs |-> rs1, gw |-> g.gw,
              handle |-> Some(BufferHandle(ins.idx)), calls |-> 1]
        ELSE [ok |-> TRUE, rs |-> inner.rs, gw |-> inner.gw,
              handle |-> Some(BufferHandle(ins.idx)), calls |-> 1 + inner.calls]

\* Device::create_buffer_in.
Device_create_buffer_in(rs, gw, create_info, alloc_pool, tag, ok) ==
    LET g == GatewayCreateBuffer(gw, create_info, Some(alloc_pool), ok)
        ins == ArenaInsert(rs.buffers,
                   [Buffer_new(g.buffer, create_info, tag) EXCEPT !.pool = Some(alloc_pool)])
    IN  IF ~g.ok THEN [ok |-> FALSE, rs |-> rs, gw |-> gw, handle |-> None]
        ELSE [ok |-> TRUE, rs |-> [rs EXCEPT !.buffers = ins.arena], gw |-> g.gw,
              handle |-> Some(BufferHandle(ins.idx))]

\* ------------------------------------------------------------------------
\* Device: the BufferBlockSet and the per-frame lists of used Blocks
\* ------------------------------------------------------------------------
\* Number of frames in flight (the length of Device::per_frame).
FramesInFlight == 2

PerFrameNew ==
    [used_vbo_blocks |-> <<>>, used_ibo_blocks |-> <<>>,
     used_ubo_blocks |-> <<>>, used_staging_blocks |-> <<>>]

BufferBlockSet(vbo_pool, ibo_pool, ubo_pool, staging_pool) ==
    [vbo_pool |-> vbo_pool, ibo_pool |-> ibo_pool,
     ubo_pool |-> ubo_pool, staging_pool |-> staging_pool]

\* The fields of Device that the block requests read and write.
DeviceNew(blocks) ==
    [blocks |-> blocks,
     per_frame |-> [f \in 1..FramesInFlight |-> PerFrameNew],
     current_frame_index |-> 0,
     vbo_upload_queue |-> <<>>,
     ibo_upload_queue |-> <<>>,
     ubo_upload_queue |-> <<>>]

\* Whether what is written to a Block has to be copied to the GPU: the
\* Block has a CPU staging side.
requires_upload(block) == IsSome(block.cpu)

\* The body the four request functions share: request a Block from the
\* pool of the usage class, push the handle on the current frame's used
\* list, look the Block up again and, for the classes that upload, push
\* the handle on the upload queue when the Block requires it.
Device_request_block(dev, gw, pool_f, used_f, queue_f, size, tag, gpu_ok, cpu_ok) ==
    LET r == request_block(dev.blocks[pool_f], gw, size, tag, gpu_ok, cpu_ok)
        handle == Unwrap(r.handle)
        d1 == [dev EXCEPT
                 !.blocks[pool_f] = r.pool,
                 !.per_frame[dev.current_frame_index + 1][used_f] = Append(@, handle)]
        block == get_block(r.pool, handle)
    IN  IF ~r.ok
        THEN [ok |-> FALSE, panic |-> FALSE, dev |-> dev, gw |-> r.gw, handle |-> None]
        ELSE IF IsSome(queue_f) /\ ~IsSome(block)
        THEN [ok |-> FALSE, panic |-> TRUE, dev |-> d1, gw |-> r.gw, handle |-> None]
        ELSE [ok |-> TRUE, panic |-> FALSE,
              dev |-> IF IsSome(queue_f) /\ requires_upload(Unwrap(block))
                      THEN [d1 EXCEPT ![Unwrap(queue_f)] = Append(@, handle)]
                      ELSE d1,
              gw |-> r.gw,
              handle |-> Some(handle)]

Device_request_vertex_block(dev, gw, size, tag, gpu_ok, cpu_ok) ==
    Device_request_block(dev, gw, "vbo_pool", "used_vbo_blocks",
                         Some("vbo_upload_queue"), size, tag, gpu_ok, cpu_ok)

Device_request_index_block(dev, gw, size, tag, gpu_ok, cpu_ok) ==
    Device_request_block(dev, gw, "ibo_pool", "used_ibo_blocks",
                         Some("ibo_upload_queue"), size, tag, gpu_ok, cpu_ok)

Device_request_uniform_block(dev, gw, size, tag, gpu_ok, cpu_ok) ==
    Device_request_block(dev, gw, "ubo_pool", "used_ubo_blocks",
                         Some("ubo_upload_queue"), size, tag, gpu_ok, cpu_ok)

Device_request_staging_block(dev, gw, size, tag, gpu_ok, cpu_ok) ==
    Device_request_block(dev, gw, "staging_pool", "used_staging_blocks",
                         None, size, tag, gpu_ok, cpu_ok)

\* ------------------------------------------------------------------------
\* State
\* ------------------------------------------------------------------------
\* Number of threads that construct a BufferBlockPool at the same time.
MaxThreads == 2

VARIABLES
    BUFFER_BLOCK_POOL_UUID, \* the global pool-id counter
    pool,                   \* the BufferBlockPool
    resources,              \* the Device's ResourceSet
    gateway,                \* the device allocator behind it
    fatal,                  \* Some(diagnostic) once the process has panicked
    removed_blocks,         \* block handles whose Block left the live arena
    removed_buffers,        \* buffer handles whose Buffer left the ResourceSet
    recycled_ok,            \* block handles recycle_block succeeded on
    issued_bufs,            \* buffer handles issued and not invalidated since
    stale_reset,            \* buffer handles issued before a reset of their Block
    stale_recycled,         \* buffer handles issued before a recycle of their Block,
                            \* each with the GPU allocator-pool of that Block
    ops,                    \* number of calls so far that changed the state
    nodrops,                \* NoDrop values a caller holds, and the last one released
    constructing,           \* the calls of BufferBlockPool::new under way, by thread
    device,                 \* the Device's BufferBlockSet and per-frame lists (None
                            \* while the run follows the single pool `pool`)
    fresh_allocations,      \* number of calls in which `pool` allocated a new Block
    requesting,             \* the calls of Device::request_*_block under way, by thread
    returned,               \* the bag of handles those calls returned, with their class
    locks,                  \* the holder of each of the Device's locks those calls take
    mip                     \* the call of mip_levels_from_extent under way

\* Everything but the call counter.
core == <<BUFFER_BLOCK_POOL_UUID, pool, resources, gateway, fatal, removed_blocks,
          removed_buffers, recycled_ok, issued_bufs, stale_reset, stale_recycled>>

vars == <<core, ops, nodrops, constructing, device, fresh_allocations,
          requesting, returned, locks, mip>>

\* A call is possible while the run has calls left; it is counted when it
\* changed something (a failed call or a lookup leaves the state as it was).
CanCall == fatal = None /\ ops < MaxOps

Counted == ops' = IF core' = core THEN ops ELSE ops + 1

\* Diagnostic tags callers pass.
Tags == {None}

\* The default block sizes a pool is constructed with.
BlockSizes == {2}

\* Requested block sizes: the sizes that fit the default size, and one
\* oversized.
MinSizes == 1..(pool.block_size + 1)

\* What the gateway answers to the two creation calls of one operation:
\* both succeed, the first fails, or the second fails.
GatewayAnswers == {<<TRUE, TRUE>>, <<FALSE, TRUE>>, <<TRUE, FALSE>>}

\* Requested buffer sizes.
BufferSizes == {1}

\* Pool ids handed out so far to pools other than `pool`.
ForeignUuids == (0..(BUFFER_BLOCK_POOL_UUID - 1)) \ {pool.uuid}

\* Block handles a caller may present: every handle the pool has issued
\* (live or removed) and one it never issued, under this pool's id or under
\* a foreign pool's.
BlockHandles ==
    {BufferBlock(u, i) :
        u \in {pool.uuid} \cup ForeignUuids,
        i \in ArenaIndices(pool.owned_blocks) \cup {h.idx : h \in removed_blocks}
               \cup {Index(Len(pool.owned_blocks.items), 0)}}

\* The pool configurations a Device constructs: vertex/index/uniform pools
\* ask for device-local memory, the staging pool does not.
PoolConfigs ==
    {[usage |-> {"VERTEX_BUFFER"}, device_local |-> TRUE],
     [usage |-> {"TRANSFER_SRC"}, device_local |-> FALSE]}

\* A thread that has not called BufferBlockPool::new.
NotConstructing ==
    [pc |-> "idle", cfg |-> None, uuid |-> None, overlapped |-> FALSE,
     gpu_type |-> None, cpu_type |-> None, result |-> None]

\* A thread that is in none of the Device's request functions.
NotRequesting == [pc |-> "idle", class |-> None, size |-> 0, tag |-> None,
                  handle |-> None]

\* The locks of Device the request functions take, none of them held: the
\* lock of the BufferBlockSet, of each frame's PerFrame and of each upload
\* queue.
LocksFree ==
    [blocks |-> None,
     per_frame |-> [f \in 1..FramesInFlight |-> None],
     vbo_upload_queue |-> None,
     ibo_upload_queue |-> None,
     ubo_upload_queue |-> None]

\* No call of mip_levels_from_extent under way.
NotCounting == [pc |-> "idle", extent |-> None, largest |-> 0, levels |-> 0]

Init ==
    /\ \E cfg \in PoolConfigs, block_size \in BlockSizes :
       \E gpu_type \in find_memory_type_index_for_buffer_info(
               BufferCreateInfo(IF cfg.device_local THEN "DeviceDynamic" ELSE "Host",
                                block_size,
                                IF cfg.device_local
                                THEN cfg.usage \cup {"TRANSFER_DST"} ELSE cfg.usage)) :
       \E cpu_type \in find_memory_type_index_for_buffer_info(
               BufferCreateInfo("Host", block_size, {"TRANSFER_SRC"})) :
          LET r == BufferBlockPool_new(1, block_size, cfg.usage, cfg.device_local,
                                       gpu_type, cpu_type)
          IN  /\ r.ok
              /\ pool = Unwrap(r.pool)
    /\ BUFFER_BLOCK_POOL_UUID = 2
    /\ resources = ResourceSetNew
    /\ gateway = GatewayInit
    /\ fatal = None
    /\ removed_blocks = {}
    /\ removed_buffers = {}
    /\ recycled_ok = {}
    /\ issued_bufs = {}
    /\ stale_reset = {}
    /\ stale_recycled = {}
    /\ ops = 0
    /\ nodrops = [held |-> <<>>, released |-> None]
    /\ constructing = [t \in 1..MaxThreads |-> NotConstructing]
    /\ device = None
    /\ fresh_allocations = 0
    /\ requesting = [t \in 1..MaxThreads |-> NotRequesting]
    /\ returned = EmptyBag
    /\ locks = LocksFree
    /\ mip = NotCounting

\* ------------------------------------------------------------------------
\* Actions
\* ------------------------------------------------------------------------
\* A successful call took the allocate_block path: it created allocator-pools
\* at the gateway (reviving a recycled Block creates none).
FreshlyAllocated(r, gw) == r.ok /\ r.gw # gw

RequestBlock ==
    /\ CanCall
    /\ \E min_size \in MinSizes, tag \in Tags, ans \in GatewayAnswers :
         LET r == request_block(pool, gateway, min_size, tag, ans[1], ans[2])
         IN  /\ pool' = r.pool
             /\ gateway' = r.gw
             /\ fresh_allocations' = IF FreshlyAllocated(r, gateway)
                                     THEN fresh_allocations + 1
                                     ELSE fresh_allocations
    /\ UNCHANGED <<nodrops, constructing, device, requesting, returned, locks, mip, BUFFER_BLOCK_POOL_UUID, resources, fatal, removed_blocks,
                   removed_buffers, recycled_ok, issued_bufs, stale_reset,
                   stale_recycled>>
    /\ Counted

AllocateBlock ==
    /\ CanCall
    /\ \E min_size \in MinSizes, tag \in Tags, ans \in GatewayAnswers :
         LET r == allocate_block(pool, gateway, min_size, tag, ans[1], ans[2])
         IN  /\ pool' = r.pool
             /\ gateway' = r.gw
             /\ fresh_allocations' = IF FreshlyAllocated(r, gateway)
                                     THEN fresh_allocations + 1
                                     ELSE fresh_allocations
    /\ UNCHANGED <<nodrops, constructing, device, requesting, returned, locks, mip, BUFFER_BLOCK_POOL_UUID, resources, fatal, removed_blocks,
                   removed_buffers, recycled_ok, issued_bufs, stale_reset,
                   stale_recycled>>
    /\ Counted

\* The number of buffers a Block holds, which bounds where a reset can fail.
BuffersIn(p, h) ==
    IF IsSome(get_block(p, h)) THEN Unwrap(get_block(p, h)).allocated_buffers.len ELSE 0

RecycleBlock ==
    /\ CanCall
    /\ \E h \in BlockHandles :
       \E fail_at \in 0..BuffersIn(pool, h) :
         LET r == recycle_block(pool, gateway, h, fail_at)
             gone == IsSome(get_block(pool, h)) /\ ~IsSome(get_block(r.pool, h))
         IN  /\ pool' = r.pool
             /\ gateway' = r.gw
             /\ fatal' = r.fatal
             /\ removed_blocks' = IF gone THEN removed_blocks \cup {h} ELSE removed_blocks
             /\ recycled_ok' = IF r.err = "Ok" THEN recycled_ok \cup {h} ELSE recycled_ok
             /\ stale_recycled' =
                    IF r.err = "Ok"
                    THEN stale_recycled \cup
                         {[buffer |-> b, gpu |-> Unwrap(get_block(pool, h)).gpu] :
                             b \in {c \in issued_bufs : c.block = h}}
                    ELSE stale_recycled
             /\ issued_bufs' = IF gone THEN {b \in issued_bufs : b.block # h}
                               ELSE issued_bufs
    /\ UNCHANGED <<nodrops, constructing, device, requesting, returned, locks, mip, fresh_allocations, BUFFER_BLOCK_POOL_UUID, resources, removed_buffers, stale_reset>>
    /\ Counted

\* pool.get_block_mut(h) followed by allocate_buffer on the Block found.
BlockAllocateBuffer ==
    /\ CanCall
    /\ \E h \in BlockHandles :
       \E size \in BufferSizes, tag \in Tags, ans \in GatewayAnswers :
         /\ IsSome(get_block(pool, h))
         /\ LET r == allocate_buffer(Unwrap(get_block(pool, h)), gateway, size, tag,
                                     ans[1], ans[2])
            IN  /\ pool' = [pool EXCEPT
                              !.owned_blocks.items[h.idx.index + 1].value[1] = r.block]
                /\ gateway' = r.gw
                /\ fatal' = IF r.panic THEN Some(<<"unwrap on None">>) ELSE None
                /\ issued_bufs' = IF r.ok THEN issued_bufs \cup {Unwrap(r.handle)}
                                  ELSE issued_bufs
    /\ UNCHANGED <<nodrops, constructing, device, requesting, returned, locks, mip, fresh_allocations, BUFFER_BLOCK_POOL_UUID, resources, removed_blocks, removed_buffers,
                   recycled_ok, stale_reset, stale_recycled>>
    /\ Counted

\* pool.get_block_mut(h) followed by reset on the Block found.
BlockReset ==
    /\ CanCall
    /\ \E h \in BlockHandles :
       \E fail_at \in 0..BuffersIn(pool, h) :
         /\ IsSome(get_block(pool, h))
         /\ LET r == reset(Unwrap(get_block(pool, h)), gateway, fail_at)
            IN  /\ pool' = [pool EXCEPT
                              !.owned_blocks.items[h.idx.index + 1].value[1] = r.block]
                /\ gateway' = r.gw
                /\ fatal' = r.fatal
                /\ stale_reset' = IF r.ok
                                   THEN stale_reset \cup {b \in issued_bufs : b.block = h}
                                   ELSE stale_reset
                /\ issued_bufs' = {b \in issued_bufs : b.block # h}
    /\ UNCHANGED <<nodrops, constructing, device, requesting, returned, locks, mip, fresh_allocations, BUFFER_BLOCK_POOL_UUID, resources, removed_blocks, removed_buffers,
                   recycled_ok, stale_recycled>>
    /\ Counted

\* Buffer handles a caller may present: every handle the ResourceSet has
\* issued (live or removed) and one it never issued.
BufferHandles ==
    {BufferHandle(i) :
        i \in ArenaIndices(resources.buffers) \cup {h.idx : h \in removed_buffers}
              \cup {Index(Len(resources.buffers.items), 0)}}

\* The create-infos callers pass to Device::create_buffer.
CreateInfos == {BufferCreateInfo("Device", 1, {"STORAGE_BUFFER"})}

CreateBuffer ==
    /\ CanCall
    /\ \E create_info \in CreateInfos, tag \in Tags, has_data \in BOOLEAN :
       \E fuel \in 0..(MaxBuffers - gateway.buffers) :
         LET r == Device_create_buffer(resources, gateway, create_info, tag,
                                       has_data, fuel)
         IN  /\ resources' = r.rs
             /\ gateway' = r.gw
    /\ UNCHANGED <<nodrops, constructing, device, requesting, returned, locks, mip, fresh_allocations, BUFFER_BLOCK_POOL_UUID, pool, fatal, removed_blocks, removed_buffers,
                   recycled_ok, issued_bufs, stale_reset, stale_recycled>>
    /\ Counted

CreateBufferIn ==
    /\ CanCall
    /\ \E create_info \in CreateInfos, tag \in Tags, ok \in BOOLEAN :
       \E alloc_pool \in 1..Len(gateway.pool_size) :
         LET r == Device_create_buffer_in(resources, gateway, create_info,
                                          alloc_pool, tag, ok)
         IN  /\ resources' = r.rs
             /\ gateway' = r.gw
    /\ UNCHANGED <<nodrops, constructing, device, requesting, returned, locks, mip, fresh_allocations, BUFFER_BLOCK_POOL_UUID, pool, fatal, removed_blocks, removed_buffers,
                   recycled_ok, issued_bufs, stale_reset, stale_recycled>>
    /\ Counted

DestroyBuffer ==
    /\ CanCall
    /\ \E h \in BufferHandles, ok \in BOOLEAN :
         LET r == Device_destroy_buffer(resources, gateway, h, ok)
         IN  /\ resources' = r.rs
             /\ gateway' = r.gw
             /\ fatal' = r.fatal
             /\ removed_buffers' = IF IsSome(get_buffer(resources, h))
                                   THEN removed_buffers \cup {h} ELSE removed_buffers
    /\ UNCHANGED <<nodrops, constructing, device, requesting, returned, locks, mip, fresh_allocations, BUFFER_BLOCK_POOL_UUID, pool, removed_blocks, recycled_ok,
                   issued_bufs, stale_reset, stale_recycled>>
    /\ Counted

\* Buffer-view handles a caller may present.  No operation inserts into
\* buffer_views, so no view handle was ever issued; BufferViewHandle::new
\* builds one from any index: the indices the `buffers` arena has issued
\* (live or removed) and one it never issued.
BufferViewHandles ==
    {BufferViewHandle(i) :
        i \in ArenaIndices(resources.buffers) \cup {h.idx : h \in removed_buffers}
              \cup {Index(Len(resources.buffers.items), 0)}}

DestroyBufferView ==
    /\ CanCall
    /\ \E v \in BufferViewHandles, ok \in BOOLEAN :
         LET r == Device_destroy_buffer_view(resources, gateway, v, ok)
         IN  /\ resources' = r.rs
             /\ gateway' = r.gw
             /\ fatal' = r.fatal
             /\ removed_buffers' = IF IsSome(get_buffer(resources, BufferHandle(v.idx)))
                                   THEN removed_buffers \cup {BufferHandle(v.idx)}
                                   ELSE removed_buffers
    /\ UNCHANGED <<nodrops, constructing, device, requesting, returned, locks, mip, fresh_allocations, BUFFER_BLOCK_POOL_UUID, pool,
                   removed_blocks, recycled_ok, issued_bufs, stale_reset, stale_recycled>>
    /\ Counted

\* The block pool and the Blocks it hands out.
Next ==
    \/ RequestBlock
    \/ AllocateBlock
    \/ RecycleBlock
    \/ BlockAllocateBuffer
    \/ BlockReset

Spec == Init /\ [][Next]_vars

\* The Device's two arenas: the ResourceSet's buffers and the pool's live
\* Blocks, with every operation that inserts into or removes from either.
NextDevice ==
    \/ CreateBuffer
    \/ CreateBufferIn
    \/ DestroyBuffer
    \/ DestroyBufferView
    \/ RequestBlock
    \/ AllocateBlock
    \/ RecycleBlock

SpecDevice == Init /\ [][NextDevice]_vars

\* ------------------------------------------------------------------------
\* Properties
\* ------------------------------------------------------------------------
\* The handles of the Blocks in the live arena.
LiveBlocks == {BufferBlock(pool.uuid, i) : i \in ArenaIndices(pool.owned_blocks)}

\* The Block a live handle names.
BlockOf(h) == Unwrap(get_block(pool, h))

\* The arena slots in use, by index alone.
SlotsOf(a) == {i.index : i \in ArenaIndices(a)}

Max(a, b) == IF a >= b THEN a ELSE b

\* C1: a handle whose entry was removed from an arena never resolves again,
\* in the ResourceSet (removed by Device::destroy_buffer) and in the pool's
\* live arena (removed by recycle_block), whatever was inserted since.
C1_RemovedHandleNeverResolves ==
    /\ \A h \in removed_buffers : get_buffer(resources, h) = None
    /\ \A h \in removed_blocks : get_block(pool, h) = None

\* Both arenas hold a new entry in the slot of a removed handle.
C1_Witness ==
    /\ \E h \in removed_buffers : h.idx.index \in SlotsOf(resources.buffers)
    /\ \E h \in removed_blocks : h.idx.index \in SlotsOf(pool.owned_blocks)

\* C2: recycle_block on a live Block of this pool whose size is not the
\* default block size returns WrongSize and changes nothing: the Block is
\* still live under its handle, the recycle list and the gateway are as
\* before, and every buffer handle carved from the Block still resolves.
C2_WrongSizeChangesNothing ==
    \A h \in LiveBlocks :
        BlockOf(h).size # pool.block_size =>
            \A fail_at \in 0..BuffersIn(pool, h) :
                LET r == recycle_block(pool, gateway, h, fail_at)
                IN  /\ r.err = "WrongSize"
                    /\ r.pool = pool
                    /\ r.gw = gateway
                    /\ r.fatal = None
                    /\ get_block(r.pool, h) = get_block(pool, h)
                    /\ \A b \in issued_bufs :
                          b.block = h =>
                             IsSome(get_gpu_buffer(Unwrap(get_block(r.pool, h)), b).value)

\* An oversized live Block with a buffer carved from it is refused.
C2_Witness ==
    \E h \in LiveBlocks :
        /\ BlockOf(h).size # pool.block_size
        /\ \E b \in issued_bufs : b.block = h
        /\ recycle_block(pool, gateway, h, 0).err = "WrongSize"

\* C3: once recycle_block succeeded on a handle, recycle_block on the same
\* handle returns AlreadyFreed and leaves the live arena and the recycle
\* list as they were, also after the Block was revived into the same slot.
C3_SecondRecycleAlreadyFreed ==
    \A h \in recycled_ok :
        LET r == recycle_block(pool, gateway, h, 0)
        IN  /\ r.err = "AlreadyFreed"
            /\ r.pool.owned_blocks = pool.owned_blocks
            /\ r.pool.recycled_blocks = pool.recycled_blocks

\* A recycled handle whose slot holds a live Block again.
C3_Witness ==
    \E h \in recycled_ok :
        /\ h.idx.index \in SlotsOf(pool.owned_blocks)
        /\ recycle_block(pool, gateway, h, 0).err = "AlreadyFreed"

\* C4: with a non-empty recycle list and min_size <= the default block
\* size, request_block succeeds whatever the gateway would answer, creates
\* no allocator-pool, and shortens the recycle list by exactly one.
C4_RequestReusesRecycled ==
    Len(pool.recycled_blocks) > 0 =>
        \A min_size \in 1..pool.block_size, tag \in Tags, ans \in GatewayAnswers :
            LET r == request_block(pool, gateway, min_size, tag, ans[1], ans[2])
            IN  /\ r.ok
                /\ r.gw = gateway
                /\ Len(r.pool.recycled_blocks) = Len(pool.recycled_blocks) - 1

\* A recycled Block waits while another Block is live and the gateway has
\* no allocator-pool left to give.
C4_Witness ==
    /\ Len(pool.recycled_blocks) > 0
    /\ LiveBlocks # {}
    /\ Len(gateway.pool_size) = MaxPools
    /\ request_block(pool, gateway, 1, None, TRUE, TRUE).ok

\* C5: a successful recycle_block(A) followed at once by request_block with
\* min_size <= the default size returns Block A itself: the same GPU and
\* CPU allocator-pools, size, usage and domain, with an empty buffer arena.
C5_RecycleThenRequestReturnsSameBlock ==
    \A h \in LiveBlocks :
        LET r1 == recycle_block(pool, gateway, h, 0)
        IN  r1.err = "Ok" =>
              \A min_size \in 1..pool.block_size, tag \in Tags, ans \in GatewayAnswers :
                 LET r2 == request_block(r1.pool, r1.gw, min_size, tag, ans[1], ans[2])
                     B == Unwrap(get_block(r2.pool, Unwrap(r2.handle)))
                 IN  /\ r2.ok
                     /\ IsSome(get_block(r2.pool, Unwrap(r2.handle)))
                     /\ B.gpu = BlockOf(h).gpu
                     /\ B.cpu = BlockOf(h).cpu
                     /\ B.size = BlockOf(h).size
                     /\ B.usage = BlockOf(h).usage
                     /\ B.domain = BlockOf(h).domain
                     /\ B.allocated_buffers.len = 0
                     /\ ArenaIndices(B.allocated_buffers) = {}

\* A Block that holds buffers is recycled while another Block is already
\* on the recycle list.
C5_Witness ==
    \E h \in LiveBlocks :
        /\ BlockOf(h).allocated_buffers.len > 0
        /\ Len(pool.recycled_blocks) > 0
        /\ recycle_block(pool, gateway, h, 0).err = "Ok"
        /\ request_block(recycle_block(pool, gateway, h, 0).pool,
                         recycle_block(pool, gateway, h, 0).gw,
                         1, None, TRUE, TRUE).ok

\* C6: request_block with min_size > the default block size never takes a
\* Block from the recycle list: the list is unchanged, a failure of the
\* gateway leaves the pool as it was, a success yields a new handle for a
\* new Block of exactly min_size on allocator-pools the gateway just
\* created, and the call succeeds whenever the gateway does.
C6_OversizedRequestAllocates ==
    \A min_size \in {m \in MinSizes : m > pool.block_size},
       tag \in Tags, ans \in GatewayAnswers :
        LET r == request_block(pool, gateway, min_size, tag, ans[1], ans[2])
            needed == IF IsSome(pool.cpu_memory_type_index) THEN 2 ELSE 1
        IN  /\ r.pool.recycled_blocks = pool.recycled_blocks
            /\ ~r.ok => r.pool = pool
            /\ (ans = <<TRUE, TRUE>> /\ Len(gateway.pool_size) + needed <= MaxPools)
                  => r.ok
            /\ r.ok =>
                 LET B == Unwrap(get_block(r.pool, Unwrap(r.handle)))
                 IN  /\ IsSome(get_block(r.pool, Unwrap(r.handle)))
                     /\ ~IsSome(get_block(pool, Unwrap(r.handle)))
                     /\ B.size = min_size
                     /\ B.gpu > Len(gateway.pool_size)
                     /\ IsSome(B.cpu) => Unwrap(B.cpu) > Len(gateway.pool_size)
                     /\ Len(r.gw.pool_size) = Len(gateway.pool_size) + needed
                     /\ r.gw.pool_size[B.gpu] = min_size
                     /\ B.allocated_buffers.len = 0

\* An oversized request succeeds while a recycled Block is waiting.
C6_Witness ==
    /\ Len(pool.recycled_blocks) > 0
    /\ request_block(pool, gateway, pool.block_size + 1, None, TRUE, TRUE).ok

\* C7: a successful allocate_block adds exactly one Block to the live
\* arena, of size max(min_size, default), with the pool's usage and domain,
\* an empty buffer arena and a self-identity equal to the handle returned.
C7_AllocateBlockInsertsOne ==
    \A min_size \in MinSizes, tag \in Tags, ans \in GatewayAnswers :
        LET r == allocate_block(pool, gateway, min_size, tag, ans[1], ans[2])
        IN  r.ok =>
              LET h == Unwrap(r.handle)
                  B == Unwrap(get_block(r.pool, h))
              IN  /\ IsSome(get_block(r.pool, h))
                  /\ ~IsSome(get_block(pool, h))
                  /\ h.pool_uuid = pool.uuid
                  /\ ArenaIndices(r.pool.owned_blocks)
                        = ArenaIndices(pool.owned_blocks) \cup {h.idx}
                  /\ r.pool.owned_blocks.len = pool.owned_blocks.len + 1
                  /\ \A g \in LiveBlocks : get_block(r.pool, g) = get_block(pool, g)
                  /\ r.pool.recycled_blocks = pool.recycled_blocks
                  /\ B.size = Max(min_size, pool.block_size)
                  /\ B.usage = pool.usage
                  /\ B.domain = pool.domain
                  /\ B.allocated_buffers.len = 0
                  /\ ArenaIndices(B.allocated_buffers) = {}
                  /\ B.self_id = Some(h)

\* A pool that already holds a live Block allocates an oversized one.
C7_Witness ==
    /\ LiveBlocks # {}
    /\ allocate_block(pool, gateway, pool.block_size + 1, None, TRUE, TRUE).ok

\* C8: recycle_block with a handle that carries another pool's id returns
\* WrongPool and changes nothing, also when the handle's index names a
\* live Block of this pool.
C8_WrongPoolChangesNothing ==
    \A h \in BlockHandles :
        h.pool_uuid # pool.uuid =>
            \A fail_at \in 0..BuffersIn(pool, BufferBlock(pool.uuid, h.idx)) :
                LET r == recycle_block(pool, gateway, h, fail_at)
                IN  /\ r.err = "WrongPool"
                    /\ r.pool = pool
                    /\ r.gw = gateway
                    /\ r.fatal = None

\* A foreign handle whose index names a live Block of the default size,
\* which its own handle could recycle.
C8_Witness ==
    \E h \in BlockHandles :
        /\ h.pool_uuid # pool.uuid
        /\ recycle_block(pool, gateway, BufferBlock(pool.uuid, h.idx), 0).err = "Ok"
        /\ recycle_block(pool, gateway, h, 0).err = "WrongPool"

\* C9: a buffer handle issued by a Block before a successful reset resolves
\* on no live Block afterwards, neither by get_gpu_buffer nor by
\* get_cpu_buffer, whatever was allocated since.
C9_ResetInvalidatesBufferHandles ==
    \A b \in stale_reset : \A h \in LiveBlocks :
        /\ ~get_gpu_buffer(BlockOf(h), b).panic
        /\ get_gpu_buffer(BlockOf(h), b).value = None
        /\ get_cpu_buffer(BlockOf(h), b).value = None

\* The Block that was reset is live under the same handle and holds a new
\* buffer in the slot of an old handle.
C9_Witness ==
    \E b \in stale_reset :
        /\ b.block \in LiveBlocks
        /\ b.gpu_idx.index \in SlotsOf(BlockOf(b.block).allocated_buffers)

\* C10: a buffer handle carved from a Block before the Block was recycled
\* resolves on no live Block afterwards, the revived Block included.
C10_RecycleInvalidatesBufferHandles ==
    \A s \in stale_recycled : \A h \in LiveBlocks :
        /\ ~get_gpu_buffer(BlockOf(h), s.buffer).panic
        /\ get_gpu_buffer(BlockOf(h), s.buffer).value = None
        /\ get_cpu_buffer(BlockOf(h), s.buffer).value = None

\* The recycled Block is live again under a new handle and holds a new
\* buffer in the slot of an old handle.
C10_Witness ==
    \E s \in stale_recycled : \E h \in LiveBlocks :
        /\ BlockOf(h).gpu = s.gpu
        /\ h # s.buffer.block
        /\ s.buffer.gpu_idx.index \in SlotsOf(BlockOf(h).allocated_buffers)

\* C11: a failed allocate_buffer leaves the Block's buffer arena holding
\* exactly the buffers it held before the call, whether the GPU-side
\* creation failed or the CPU staging creation failed after it.
C11_FailedAllocateBufferRegistersNothing ==
    \A h \in LiveBlocks :
        \A size \in BufferSizes, tag \in Tags, ans \in GatewayAnswers :
            LET r == allocate_buffer(BlockOf(h), gateway, size, tag, ans[1], ans[2])
            IN  ~r.ok =>
                  /\ r.block.allocated_buffers.len = BlockOf(h).allocated_buffers.len
                  /\ ArenaValues(r.block.allocated_buffers)
                        = ArenaValues(BlockOf(h).allocated_buffers)

\* C12: whenever recycle_block returns an error (WrongPool, WrongSize,
\* AlreadyFreed or DestructionError), the pool's live arena and recycle list
\* are exactly as before the call; after a DestructionError the Block is
\* still held by the pool.
C12_FailedRecycleChangesNothing ==
    \A h \in BlockHandles :
        \A fail_at \in 0..BuffersIn(pool, h) :
            LET r == recycle_block(pool, gateway, h, fail_at)
            IN  r.err # "Ok" =>
                  /\ ArenaIndices(r.pool.owned_blocks) = ArenaIndices(pool.owned_blocks)
                  /\ r.pool.recycled_blocks = pool.recycled_blocks
                  /\ r.err = "DestructionError" =>
                        \/ IsSome(get_block(r.pool, h))
                        \/ \E k \in 1..Len(r.pool.recycled_blocks) :
                              r.pool.recycled_blocks[k].gpu = BlockOf(h).gpu

\* ------------------------------------------------------------------------
\* The NoDrop discipline
\* ------------------------------------------------------------------------
\* Number of NoDrop-carrying values a caller holds at once.
MaxHeld == 2

\* The tags callers attach.
TagInputs == {Tag_Static("vertex"), Tag_Allocated("frame 7")}

\* A value the caller holds: what it is, the tag given at creation (None
\* when none was supplied) and the NoDrop it carries.
Held(kind, given, nodrop) == [kind |-> kind, given |-> given, nodrop |-> nodrop]

CanHold == fatal = None /\ Len(nodrops.held) < MaxHeld

Without(held, i) == SubSeq(held, 1, i - 1) \o SubSeq(held, i + 1, Len(held))

\* NoDrop::new(tag).
NoDropNew ==
    /\ CanHold
    /\ \E tag \in TagInputs :
         nodrops' = [nodrops EXCEPT
                        !.held = Append(@, Held("NoDrop", Some(tag), NoDrop_new(tag)))]
    /\ UNCHANGED <<core, ops, constructing, device, requesting, returned, locks, mip, fresh_allocations>>

\* NoDrop::from_str(text) and NoDrop::from_string(text).
NoDropFromText ==
    /\ CanHold
    /\ \E tag \in TagInputs :
         nodrops' = [nodrops EXCEPT
                        !.held = Append(@, Held("NoDrop", Some(tag),
                                    IF tag.kind = "Static"
                                    THEN NoDrop_from_str(tag.text)
                                    ELSE NoDrop_from_string(tag.text)))]
    /\ UNCHANGED <<core, ops, constructing, device, requesting, returned, locks, mip, fresh_allocations>>

\* NoDrop::default().
NoDropDefault ==
    /\ CanHold
    /\ nodrops' = [nodrops EXCEPT
                      !.held = Append(@, Held("NoDrop", None, NoDrop_default))]
    /\ UNCHANGED <<core, ops, constructing, device, requesting, returned, locks, mip, fresh_allocations>>

\* OwnedBufferBlock::new with a tag or without one.
BlockNew ==
    /\ CanHold
    /\ \E tag \in {None} \cup {Some(t) : t \in TagInputs} :
         nodrops' = [nodrops EXCEPT
                        !.held = Append(@, Held("OwnedBufferBlock", tag,
                                    OwnedBufferBlock_new(None, 1, None, ArenaNew,
                                        pool.usage, pool.domain, pool.block_size,
                                        tag).nodrop))]
    /\ UNCHANGED <<core, ops, constructing, device, requesting, returned, locks, mip, fresh_allocations>>

\* NoDrop::destroy(self) on a value held.
NoDropDestroy ==
    /\ fatal = None
    /\ \E i \in 1..Len(nodrops.held) :
         /\ nodrops.held[i].kind = "NoDrop"
         /\ fatal' = NoDrop_destroy(nodrops.held[i].nodrop)
         /\ nodrops' = [held |-> Without(nodrops.held, i),
                        released |-> Some([value |-> nodrops.held[i],
                                           destroyed |-> TRUE])]
    /\ UNCHANGED <<constructing, device, requesting, returned, locks, mip, fresh_allocations, BUFFER_BLOCK_POOL_UUID, pool, resources, gateway,
                   removed_blocks,
                   removed_buffers, recycled_ok, issued_bufs, stale_reset,
                   stale_recycled, ops>>

\* A value held goes out of scope: Drop for NoDrop runs.
NoDropRelease ==
    /\ fatal = None
    /\ \E i \in 1..Len(nodrops.held) :
         /\ fatal' = NoDrop_drop(nodrops.held[i].nodrop)
         /\ nodrops' = [held |-> Without(nodrops.held, i),
                        released |-> Some([value |-> nodrops.held[i],
                                           destroyed |-> FALSE])]
    /\ UNCHANGED <<constructing, device, requesting, returned, locks, mip, fresh_allocations, BUFFER_BLOCK_POOL_UUID, pool, resources, gateway,
                   removed_blocks,
                   removed_buffers, recycled_ok, issued_bufs, stale_reset,
                   stale_recycled, ops>>

NextNoDrop ==
    \/ NoDropNew
    \/ NoDropFromText
    \/ NoDropDefault
    \/ BlockNew
    \/ NoDropDestroy
    \/ NoDropRelease

SpecNoDrop == Init /\ [][NextNoDrop]_vars

\* The diagnostic of a fatal drop that names `text`.
DropDiagnostic(text) == Some(<<"NoDrop item with tag", text, "was dropped!">>)

\* C13 as stated: a NoDrop-carrying value released without destroy is fatal
\* with a diagnostic that names the tag given at creation, or "untagged"
\* when none was given; a destroyed value is released without fatal error.
C13_DropNamesTagOrUntagged ==
    IsSome(nodrops.released) =>
        LET v == Unwrap(nodrops.released).value
        IN  IF Unwrap(nodrops.released).destroyed
            THEN fatal = None
            ELSE fatal = DropDiagnostic(IF IsSome(v.given)
                                        THEN Tag_fmt(Unwrap(v.given))
                                        ELSE "untagged")

\* C13 amended: the diagnostic names the tag given at creation; when none
\* was given it names the placeholder of the constructor, "anonymous" for
\* NoDrop::default() and "Generic OwnedBufferBlock" for an OwnedBufferBlock.
\* A destroyed value is released without fatal error.
C13_DropNamesTagOrPlaceholder ==
    IsSome(nodrops.released) =>
        LET v == Unwrap(nodrops.released).value
        IN  IF Unwrap(nodrops.released).destroyed
            THEN fatal = None
            ELSE fatal = DropDiagnostic(
                            IF IsSome(v.given) THEN Tag_fmt(Unwrap(v.given))
                            ELSE IF v.kind = "OwnedBufferBlock"
                                 THEN "Generic OwnedBufferBlock"
                                 ELSE "anonymous")

\* An OwnedBufferBlock created without a tag was released undestroyed
\* while a tagged NoDrop is still held.
C13_Witness ==
    /\ IsSome(nodrops.released)
    /\ ~Unwrap(nodrops.released).destroyed
    /\ Unwrap(nodrops.released).value.kind = "OwnedBufferBlock"
    /\ Unwrap(nodrops.released).value.given = None
    /\ fatal # None
    /\ Len(nodrops.held) > 0

\* What one call of an operation of impl BufferBlockPool (or of a Block
\* reached through get_block_mut) can make of the pool: the pool after the
\* call and whether the call was fatal.
PoolOutcomes ==
    {[pool |-> request_block(pool, gateway, m, t, a[1], a[2]).pool, fatal |-> None] :
        m \in MinSizes, t \in Tags, a \in GatewayAnswers}
    \cup
    {[pool |-> allocate_block(pool, gateway, m, t, a[1], a[2]).pool, fatal |-> None] :
        m \in MinSizes, t \in Tags, a \in GatewayAnswers}
    \cup
    {[pool |-> recycle_block(pool, gateway, g, f).pool,
      fatal |-> recycle_block(pool, gateway, g, f).fatal] :
        g \in BlockHandles, f \in 0..MaxBuffers}
    \cup
    {[pool |-> [pool EXCEPT !.owned_blocks.items[g.idx.index + 1].value[1] =
                    reset(BlockOf(g), gateway, f).block],
      fatal |-> reset(BlockOf(g), gateway, f).fatal] :
        g \in LiveBlocks, f \in 0..MaxBuffers}
    \cup
    {[pool |-> [pool EXCEPT !.owned_blocks.items[g.idx.index + 1].value[1] =
                    allocate_buffer(BlockOf(g), gateway, 1, None, a[1], a[2]).block],
      fatal |-> None] :
        g \in LiveBlocks, a \in GatewayAnswers}

\* C14: for every live oversized Block there is a pool operation the caller
\* can invoke that takes the Block out of the live arena for good (not onto
\* the recycle list) without a fatal drop.
C14_OversizedBlockCanBeDestroyed ==
    \A h \in LiveBlocks :
        BlockOf(h).size # pool.block_size =>
            \E o \in PoolOutcomes :
                /\ o.fatal = None
                /\ get_block(o.pool, h) = None
                /\ \A k \in 1..Len(o.pool.recycled_blocks) :
                      o.pool.recycled_blocks[k].gpu # BlockOf(h).gpu

\* C15: every operation given a stale handle, a foreign-pool handle or a
\* handle to an already recycled or destroyed resource returns a value the
\* caller can observe the misuse by: none from get_block and get_buffer, a
\* recycle-error variant from recycle_block, and a 'not found' from
\* Device::destroy_buffer.
C15_HandleMisuseIsSurfaced ==
    /\ \A h \in BlockHandles :
          (h.pool_uuid # pool.uuid \/ h \in removed_blocks) =>
             /\ get_block(pool, h) = None
             /\ recycle_block(pool, gateway, h, 0).err \in {"WrongPool", "AlreadyFreed"}
    /\ \A h \in removed_buffers :
          /\ get_buffer(resources, h) = None
          /\ \A ok \in BOOLEAN :
                Device_destroy_buffer(resources, gateway, h, ok).ret # Unit

\* C16: get_block and get_block_mut of this pool return none for every
\* block handle that carries another pool's id, whatever its index and
\* generation and whatever this pool's live arena holds there.
C16_ForeignBlockHandleNotFound ==
    \A h \in BlockHandles :
        h.pool_uuid # pool.uuid => get_block(pool, h) = None

\* A foreign handle whose index and generation are those of a live Block
\* of this pool.
C16_Witness ==
    \E h \in BlockHandles :
        /\ h.pool_uuid # pool.uuid
        /\ IsSome(ArenaGet(pool.owned_blocks, h.idx))
        /\ get_block(pool, h) = None

\* The buffer handles a second Device issues from its own, new ResourceSet
\* for the first buffer it creates.
OtherResourceSetHandles ==
    {Unwrap(r.handle) :
        r \in {q \in {Device_create_buffer(ResourceSetNew, GatewayInit, ci, t, TRUE, 1) :
                        ci \in CreateInfos, t \in Tags} : q.ok}}

\* C17: a BufferHandle issued by another ResourceSet never resolves through
\* get_buffer / get_buffer_mut of this ResourceSet, also when this arena
\* has a live entry with the same index and generation.
C17_ForeignBufferHandleNotFound ==
    \A h \in OtherResourceSetHandles : get_buffer(resources, h) = None

\* Every index an arena could have issued so far, and one slot beyond.
IndicesUpTo(a) == {Index(i, g) : i \in 0..Len(a.items), g \in 0..a.generation}

\* Buffer handles a caller may present to the Block under h: for every
\* Block handle the pool knows, every GPU index, without a CPU index or
\* with the next slot or the same slot as CPU index.
BufferBlockBuffers(h) ==
    {BufferBlockBuffer(blk, gi, ci) :
        blk \in LiveBlocks \cup removed_blocks,
        gi \in IndicesUpTo(BlockOf(h).allocated_buffers),
        ci \in {None}} \cup
    {BufferBlockBuffer(blk, gi, Some(Index(gi.index + d, gi.generation))) :
        blk \in LiveBlocks \cup removed_blocks,
        gi \in IndicesUpTo(BlockOf(h).allocated_buffers),
        d \in {0, 1}}

\* C18: on a live Block, get_gpu_buffer and get_cpu_buffer never panic and
\* return none for a handle that names another Block or a slot that holds
\* nothing; for a handle the Block issued and has not reset, get_gpu_buffer
\* returns the GPU buffer that allocate_buffer call created and
\* get_cpu_buffer its staging buffer, or none when the handle has no CPU
\* side.
C18_BufferLookup ==
    \A h \in LiveBlocks :
        LET B == BlockOf(h)
        IN  /\ \A b \in BufferBlockBuffers(h) :
                  /\ ~get_gpu_buffer(B, b).panic
                  /\ ~get_cpu_buffer(B, b).panic
                  /\ b.block # h =>
                        /\ get_gpu_buffer(B, b).value = None
                        /\ get_cpu_buffer(B, b).value = None
                  /\ ArenaGet(B.allocated_buffers, b.gpu_idx) = None =>
                        get_gpu_buffer(B, b).value = None
                  /\ (IsSome(b.cpu_idx) =>
                          ArenaGet(B.allocated_buffers, Unwrap(b.cpu_idx)) = None) =>
                        get_cpu_buffer(B, b).value = None
            /\ \A b \in issued_bufs :
                  b.block = h =>
                     /\ IsSome(get_gpu_buffer(B, b).value)
                     /\ Unwrap(get_gpu_buffer(B, b).value).pool = Some(B.gpu)
                     /\ Unwrap(get_gpu_buffer(B, b).value).create_info.domain = B.domain
                     /\ IF IsSome(b.cpu_idx)
                        THEN /\ IsSome(get_cpu_buffer(B, b).value)
                             /\ Unwrap(get_cpu_buffer(B, b).value).pool = B.cpu
                             /\ Unwrap(get_cpu_buffer(B, b).value).create_info.domain = "Host"
                             /\ Unwrap(get_cpu_buffer(B, b).value).buffer
                                   = Unwrap(get_gpu_buffer(B, b).value).buffer + 1
                        ELSE get_cpu_buffer(B, b).value = None
            /\ \A size \in BufferSizes, tag \in Tags, ans \in GatewayAnswers :
                  LET r == allocate_buffer(B, gateway, size, tag, ans[1], ans[2])
                  IN  /\ r.ok =>
                         /\ get_gpu_buffer(r.block, Unwrap(r.handle)).value =
                               Some(OwnedBuffer_new(gateway.buffers + 1, Some(B.gpu),
                                       BufferCreateInfo(B.domain, size, B.usage), tag))
                         /\ get_cpu_buffer(r.block, Unwrap(r.handle)).value =
                               IF IsSome(B.cpu)
                               THEN Some(OwnedBuffer_new(gateway.buffers + 2, B.cpu,
                                       BufferCreateInfo("Host", size, {"TRANSFER_SRC"}),
                                       tag))
                               ELSE None
                      /\ \A b \in issued_bufs :
                            b.block = h =>
                               /\ get_gpu_buffer(r.block, b) = get_gpu_buffer(B, b)
                               /\ get_cpu_buffer(r.block, b) = get_cpu_buffer(B, b)

\* Two live Blocks that each issued a handle: the first Block's handle
\* resolves on it and not on the second Block, although the second Block
\* holds a buffer at the same index and generation.
C18_Witness ==
    \E b \in issued_bufs : \E h \in LiveBlocks :
        /\ b.block \in LiveBlocks
        /\ b.block # h
        /\ IsSome(get_gpu_buffer(BlockOf(b.block), b).value)
        /\ IsSome(ArenaGet(BlockOf(h).allocated_buffers, b.gpu_idx))
        /\ get_gpu_buffer(BlockOf(h), b).value = None

\* C19: a successful allocate_buffer on a Block whose GPU memory type is
\* not host-visible (the Block has a CPU staging pool) returns a handle
\* with a CPU-side buffer and registers exactly two buffers; on a Block
\* whose GPU memory type is host-visible it returns a handle without a
\* CPU-side buffer and registers exactly one.
C19_StagingIffNotHostVisible ==
    \A h \in LiveBlocks :
        LET B == BlockOf(h)
            host_visible == is_memory_type_host_visible(pool.gpu_memory_type_index)
        IN  /\ IsSome(B.cpu) <=> ~host_visible
            /\ \A size \in BufferSizes, tag \in Tags, ans \in GatewayAnswers :
                  LET r == allocate_buffer(B, gateway, size, tag, ans[1], ans[2])
                      before == B.allocated_buffers.len
                      after == r.block.allocated_buffers.len
                  IN  r.ok =>
                        IF host_visible
                        THEN /\ Unwrap(r.handle).cpu_idx = None
                             /\ after = before + 1
                             /\ r.gw.buffers = gateway.buffers + 1
                        ELSE /\ IsSome(Unwrap(r.handle).cpu_idx)
                             /\ Unwrap(r.handle).cpu_idx # Some(Unwrap(r.handle).gpu_idx)
                             /\ after = before + 2
                             /\ r.gw.buffers = gateway.buffers + 2

\* A Block with a CPU staging pool (GPU memory not host-visible) has issued
\* a handle with a CPU side, and the gateway has handed out two buffers.
C19_Witness ==
    \E b \in issued_bufs :
        /\ b.block \in LiveBlocks
        /\ ~is_memory_type_host_visible(pool.gpu_memory_type_index)
        /\ IsSome(b.cpu_idx)
        /\ BlockOf(b.block).allocated_buffers.len = 2

\* C20: in every reachable state every Block on the recycle list has the
\* pool's default block size.
C20_RecycleListHoldsDefaultSize ==
    \A k \in 1..Len(pool.recycled_blocks) :
        pool.recycled_blocks[k].size = pool.block_size

\* A Block waits on the recycle list while an oversized Block, which
\* recycle_block refuses, is live.
C20_Witness ==
    /\ Len(pool.recycled_blocks) > 0
    /\ \E h \in LiveBlocks :
          /\ BlockOf(h).size # pool.block_size
          /\ recycle_block(pool, gateway, h, 0).pool.recycled_blocks
                = pool.recycled_blocks

\* The buffers a Block holds in its buffer arena.
BuffersOf(block) == ArenaValues(block.allocated_buffers)

\* C21 as stated: every buffer in a Block's buffer arena, GPU-side or CPU
\* staging, has the Block's domain and a usage-flag set that is the Block's
\* usage flags, possibly with transfer-source/destination bits added.
C21_BuffersShareDomainAndUsage ==
    \A h \in LiveBlocks :
        \A buf \in BuffersOf(BlockOf(h)) :
            /\ buf.create_info.domain = BlockOf(h).domain
            /\ BlockOf(h).usage \subseteq buf.create_info.usage
            /\ buf.create_info.usage \subseteq
                  BlockOf(h).usage \cup {"TRANSFER_SRC", "TRANSFER_DST"}

\* C21 amended: every GPU-side buffer in a Block's buffer arena has the
\* Block's domain and exactly the Block's usage flags; every CPU staging
\* buffer has the Host domain and the usage flags {TRANSFER_SRC}, whatever
\* the Block's domain and usage are.
C21_GpuBuffersShareStagingIsHost ==
    \A h \in LiveBlocks :
        \A buf \in BuffersOf(BlockOf(h)) :
            IF buf.pool = Some(BlockOf(h).gpu)
            THEN /\ buf.create_info.domain = BlockOf(h).domain
                 /\ buf.create_info.usage = BlockOf(h).usage
            ELSE /\ buf.pool = BlockOf(h).cpu
                 /\ buf.create_info.domain = "Host"
                 /\ buf.create_info.usage = {"TRANSFER_SRC"}

\* A DeviceDynamic Block holds a GPU-side buffer and its CPU staging buffer.
C21_Witness ==
    \E h \in LiveBlocks :
        /\ BlockOf(h).domain = "DeviceDynamic"
        /\ \E buf \in BuffersOf(BlockOf(h)) : buf.pool = Some(BlockOf(h).gpu)
        /\ \E buf \in BuffersOf(BlockOf(h)) :
              buf.pool = BlockOf(h).cpu /\ buf.create_info.domain = "Host"

\* Every Block the pool holds, in one sequence: the Blocks of the live arena
\* in index order, followed by the recycle list.
HeldBlocks ==
    [k \in 1..pool.owned_blocks.len |-> OccupiedFrom(pool.owned_blocks.items, 1)[k].value]
        \o pool.recycled_blocks

\* Every buffer the Blocks of the pool hold, one entry for each occupied
\* slot of each Block's buffer arena.
RECURSIVE HeldBuffersFrom(_, _)
HeldBuffersFrom(blocks, k) ==
    IF k > Len(blocks) THEN <<>>
    ELSE [i \in 1..blocks[k].allocated_buffers.len |->
             [owner |-> blocks[k].gpu,
              buf |-> OccupiedFrom(blocks[k].allocated_buffers.items, 1)[i].value]]
         \o HeldBuffersFrom(blocks, k + 1)

\* C22: no Block is owned twice.  A Block is known by its allocator-pools:
\* no two positions of the live arena and the recycle list together hold
\* the same GPU or CPU allocator-pool, the live arena counts as many Blocks
\* as it has handles, and no two slots of the Blocks' buffer arenas hold
\* the same buffer, each buffer lying in the arena of the Block whose
\* allocator-pool it was carved from.
C22_NoBlockOwnedTwice ==
    LET blocks == HeldBlocks
        bufs == HeldBuffersFrom(blocks, 1)
    IN  /\ Cardinality(ArenaIndices(pool.owned_blocks)) = pool.owned_blocks.len
        /\ Cardinality(LiveBlocks) = pool.owned_blocks.len
        /\ \A i, j \in 1..Len(blocks) :
              i # j =>
                 /\ blocks[i].gpu # blocks[j].gpu
                 /\ Some(blocks[i].gpu) # blocks[j].cpu
                 /\ IsSome(blocks[i].cpu) => blocks[i].cpu # blocks[j].cpu
        /\ \A i, j \in 1..Len(bufs) :
              i # j => bufs[i].buf.buffer # bufs[j].buf.buffer
        /\ \A i \in 1..Len(bufs) :
              \E k \in 1..Len(blocks) :
                 /\ blocks[k].gpu = bufs[i].owner
                 /\ bufs[i].buf.pool \in {Some(blocks[k].gpu), blocks[k].cpu}

\* A Block that was recycled waits on the recycle list while another Block
\* is live and holds a buffer.
C22_Witness ==
    /\ recycled_ok # {}
    /\ Len(pool.recycled_blocks) > 0
    /\ \E h \in LiveBlocks : BlockOf(h).allocated_buffers.len > 0

\* C23: every Block in the live arena stores a self-identity equal to the
\* handle under which get_block finds it, so that its accessors and
\* allocate_buffer do not panic on a missing self-identity; every Block on
\* the recycle list has no self-identity.
C23_SelfIdentityMatchesHandle ==
    /\ \A h \in LiveBlocks :
          /\ IsSome(get_block(pool, h))
          /\ BlockOf(h).self_id = Some(h)
          /\ \A b \in issued_bufs :
                /\ ~get_gpu_buffer(BlockOf(h), b).panic
                /\ ~get_cpu_buffer(BlockOf(h), b).panic
          /\ \A size \in BufferSizes, tag \in Tags, ans \in GatewayAnswers :
                ~allocate_buffer(BlockOf(h), gateway, size, tag, ans[1], ans[2]).panic
    /\ \A k \in 1..Len(pool.recycled_blocks) :
          pool.recycled_blocks[k].self_id = None

\* A Block that was recycled with buffers in it is live again, under a
\* handle that is not the handle it was recycled under, and stores the new
\* handle.
C23_Witness ==
    \E s \in stale_recycled : \E h \in LiveBlocks :
        /\ BlockOf(h).gpu = s.gpu
        /\ h # s.buffer.block
        /\ h.idx.index = s.buffer.block.idx.index
        /\ BlockOf(h).self_id = Some(h)

\* The bytes the first n of the given buffers take from allocator-pool p.
RECURSIVE BytesIn(_, _, _)
BytesIn(bufs, n, p) ==
    IF n = 0 THEN 0
    ELSE BytesIn(bufs, n - 1, p)
         + (IF bufs[n].buf.pool = Some(p) THEN bufs[n].buf.create_info.size ELSE 0)

\* C24: a successful reset destroys every buffer that was in the Block's
\* buffer arena exactly once (the gateway gets back the bytes of each buffer
\* once), leaves the arena empty, and leaves the Block's GPU and CPU
\* allocator-pools, size, usage, domain and self-identity as they were; the
\* gateway has the same allocator-pools after the call as before.
C24_ResetDestroysBuffersKeepsPools ==
    \A h \in LiveBlocks :
        \A fail_at \in 0..BuffersIn(pool, h) :
            LET B == BlockOf(h)
                bufs == HeldBuffersFrom(<<B>>, 1)
                r == reset(B, gateway, fail_at)
            IN  r.ok =>
                  /\ r.destroyed = {bufs[k].buf.buffer : k \in 1..Len(bufs)}
                  /\ Cardinality(r.destroyed) = B.allocated_buffers.len
                  /\ r.fatal = None
                  /\ r.block.allocated_buffers.len = 0
                  /\ ArenaIndices(r.block.allocated_buffers) = {}
                  /\ \A b \in issued_bufs :
                        ArenaGet(r.block.allocated_buffers, b.gpu_idx) = None
                  /\ r.block.gpu = B.gpu
                  /\ r.block.cpu = B.cpu
                  /\ r.block.size = B.size
                  /\ r.block.usage = B.usage
                  /\ r.block.domain = B.domain
                  /\ r.block.self_id = B.self_id
                  /\ r.block.nodrop = B.nodrop
                  /\ r.gw.pool_type = gateway.pool_type
                  /\ r.gw.pool_size = gateway.pool_size
                  /\ r.gw.buffers = gateway.buffers
                  /\ \A p \in 1..Len(gateway.pool_used) :
                        r.gw.pool_used[p] =
                            gateway.pool_used[p] - BytesIn(bufs, Len(bufs), p)

\* A live Block with a CPU staging pool holds a GPU-side buffer and its
\* staging buffer, and a reset of it succeeds.
C24_Witness ==
    \E h \in LiveBlocks :
        /\ IsSome(BlockOf(h).cpu)
        /\ BlockOf(h).allocated_buffers.len = 2
        /\ reset(BlockOf(h), gateway, 0).ok
        /\ gateway.pool_used[BlockOf(h).gpu] > 0

\* ------------------------------------------------------------------------
\* BufferBlockPool::new on several threads
\* ------------------------------------------------------------------------
\* Line 244 of BufferBlockPool::new on thread t: one atomic fetch_add on the
\* global counter.  `overlapped` records that another thread was between
\* its fetch_add and the end of its call at that moment.
NewFetchAdd(t) ==
    /\ fatal = None
    /\ constructing[t].pc = "idle"
    /\ \E cfg \in PoolConfigs, block_size \in BlockSizes :
         LET f == AtomicUsize_fetch_add(BUFFER_BLOCK_POOL_UUID, 1)
         IN  /\ BUFFER_BLOCK_POOL_UUID' = f.new
             /\ constructing' = [constructing EXCEPT ![t] =
                    [@ EXCEPT !.pc = "fetched",
                              !.cfg = Some([usage |-> cfg.usage,
                                            device_local |-> cfg.device_local,
                                            block_size |-> block_size]),
                              !.uuid = Some(f.ret),
                              !.overlapped = \E u \in 1..MaxThreads :
                                                u # t /\ constructing[u].pc = "fetched"]]
    /\ UNCHANGED <<requesting, returned, locks, mip, fresh_allocations, pool, resources, gateway, fatal, removed_blocks, removed_buffers,
                   recycled_ok, issued_bufs, stale_reset, stale_recycled, ops,
                   nodrops, device>>

\* The rest of BufferBlockPool::new on thread t (lines 245-286), which
\* touches no shared state: the memory-type queries, answered by the
\* allocator, and the construction of the pool or the error.  The second
\* query has an answer only when it is asked.
NewResolve(t) ==
    /\ fatal = None
    /\ constructing[t].pc = "fetched"
    /\ \E gpu_type, cpu_type \in {None} \cup {Some(i) : i \in MemoryTypeIndices} :
         LET cfg == Unwrap(constructing[t].cfg)
             r == BufferBlockPool_new(Unwrap(constructing[t].uuid), cfg.block_size,
                                      cfg.usage, cfg.device_local, gpu_type, cpu_type)
         IN  /\ gpu_type \in AllocatorAnswers(r.queries[1])
             /\ IF Len(r.queries) > 1
                THEN cpu_type \in AllocatorAnswers(r.queries[2])
                ELSE cpu_type = None
             /\ constructing' = [constructing EXCEPT ![t] =
                    [@ EXCEPT !.pc = "done",
                              !.gpu_type = gpu_type,
                              !.cpu_type = cpu_type,
                              !.result = Some(r)]]
    /\ UNCHANGED <<requesting, returned, locks, mip, fresh_allocations, BUFFER_BLOCK_POOL_UUID, pool, resources, gateway, fatal,
                   removed_blocks, removed_buffers, recycled_ok, issued_bufs,
                   stale_reset, stale_recycled, ops, nodrops, device>>

NextPoolNew ==
    \/ \E t \in 1..MaxThreads : NewFetchAdd(t)
    \/ \E t \in 1..MaxThreads : NewResolve(t)

SpecPoolNew == Init /\ [][NextPoolNew]_vars

\* The threads whose call of BufferBlockPool::new has returned.
Constructed == {t \in 1..MaxThreads : constructing[t].pc = "done"}

\* The result of thread t's call.
ResultOf(t) == Unwrap(constructing[t].result)

\* C25: BufferBlockPool::new asks for the GPU memory type once, and asks for
\* a CPU staging memory type if and only if the GPU memory type it got is
\* not host-visible; when either query fails, new returns the error and
\* constructs no pool.  With requires_device_local the pool's domain is
\* DeviceDynamic and its usage gains TRANSFER_DST, otherwise the domain is
\* Host and the usage is as given.
C25_NewResolvesMemoryTypes ==
    \A t \in Constructed :
        LET c == constructing[t]
            cfg == Unwrap(c.cfg)
            r == ResultOf(t)
            domain == IF cfg.device_local THEN "DeviceDynamic" ELSE "Host"
            usage == IF cfg.device_local THEN cfg.usage \cup {"TRANSFER_DST"}
                     ELSE cfg.usage
            staging == IsSome(c.gpu_type)
                       /\ ~is_memory_type_host_visible(Unwrap(c.gpu_type))
        IN  /\ Len(r.queries) = IF staging THEN 2 ELSE 1
            /\ r.queries[1].size = cfg.block_size
            /\ r.queries[1].usage = usage
            /\ staging => r.queries[2].usage = {"TRANSFER_SRC"}
            /\ r.ok <=> (IsSome(c.gpu_type) /\ (staging => IsSome(c.cpu_type)))
            /\ ~r.ok => r.pool = None
            /\ r.ok =>
                 /\ IsSome(r.pool)
                 /\ Unwrap(r.pool).domain = domain
                 /\ Unwrap(r.pool).usage = usage
                 /\ Unwrap(r.pool).block_size = cfg.block_size
                 /\ Unwrap(r.pool).gpu_memory_type_index = Unwrap(c.gpu_type)
                 /\ Unwrap(r.pool).cpu_memory_type_index =
                        IF staging THEN c.cpu_type ELSE None
                 /\ Unwrap(r.pool).owned_blocks.len = 0
                 /\ Unwrap(r.pool).recycled_blocks = <<>>

\* One call failed at the CPU staging query, after its GPU query was
\* answered, and another call constructed a device-local pool with a
\* staging memory type.
C25_Witness ==
    \E t, u \in Constructed :
        /\ ~ResultOf(t).ok
        /\ IsSome(constructing[t].gpu_type)
        /\ Len(ResultOf(t).queries) = 2
        /\ ResultOf(u).ok
        /\ Unwrap(ResultOf(u).pool).domain = "DeviceDynamic"
        /\ IsSome(Unwrap(ResultOf(u).pool).cpu_memory_type_index)

\* BufferUsageDomain.
BufferUsageDomains == {"Device", "DeviceDynamic", "Host", "Readback"}

\* Create-infos of every domain, of several sizes and usages.
AnyCreateInfos ==
    {BufferCreateInfo(d, size, usage) :
        d \in BufferUsageDomains,
        size \in 1..3,
        usage \in {{"VERTEX_BUFFER"}, {"TRANSFER_SRC"}, {"STORAGE_BUFFER", "TRANSFER_DST"}}}

\* C28: the memory constraints handed to the gateway are determined by the
\* domain alone: Device requires device-local; DeviceDynamic requires
\* device-local and prefers host-visible; Host requires host-visible;
\* Readback requires host-visible and host-cached; no domain but
\* DeviceDynamic prefers anything, and the allocation is always requested
\* as mapped.  This holds of the function for every create-info and of the
\* queries every finished BufferBlockPool::new has made.
C28_ConstraintsFollowDomain ==
    LET required(d) == CASE d = "Device" -> {"DEVICE_LOCAL"}
                         [] d = "DeviceDynamic" -> {"DEVICE_LOCAL"}
                         [] d = "Host" -> {"HOST_VISIBLE"}
                         [] d = "Readback" -> {"HOST_VISIBLE", "HOST_CACHED"}
        preferred(d) == IF d = "DeviceDynamic" THEN {"HOST_VISIBLE"} ELSE {}
        expected(d) == [flags |-> {"MAPPED"}, required_flags |-> required(d),
                        preferred_flags |-> preferred(d)]
    IN  /\ \A ci \in AnyCreateInfos :
              allocation_info_from_buffer_create_info(ci) = expected(ci.domain)
        /\ \A ci, cj \in AnyCreateInfos :
              ci.domain = cj.domain =>
                 allocation_info_from_buffer_create_info(ci)
                    = allocation_info_from_buffer_create_info(cj)
        /\ \A t \in Constructed :
              /\ ResultOf(t).queries[1].alloc_info =
                    expected(IF Unwrap(constructing[t].cfg).device_local
                             THEN "DeviceDynamic" ELSE "Host")
              /\ Len(ResultOf(t).queries) > 1 =>
                    ResultOf(t).queries[2].alloc_info = expected("Host")
              /\ IsSome(constructing[t].gpu_type) =>
                    ResultOf(t).queries[1].alloc_info.required_flags
                        \subseteq MemoryTypes[Unwrap(constructing[t].gpu_type) + 1]

\* A device-local pool was constructed on a memory type that is device-local
\* and not host-visible (the preference was not met), with a host-visible
\* staging memory type from the second query; a Host pool was constructed
\* as well.
C28_Witness ==
    \E t, u \in Constructed :
        /\ ResultOf(t).ok
        /\ Unwrap(ResultOf(t).pool).domain = "DeviceDynamic"
        /\ ~is_memory_type_host_visible(Unwrap(ResultOf(t).pool).gpu_memory_type_index)
        /\ IsSome(Unwrap(ResultOf(t).pool).cpu_memory_type_index)
        /\ is_memory_type_host_visible(
              Unwrap(Unwrap(ResultOf(t).pool).cpu_memory_type_index))
        /\ ResultOf(u).ok
        /\ Unwrap(ResultOf(u).pool).domain = "Host"

\* The pools the finished calls constructed.
ConstructedPools == {t \in Constructed : ResultOf(t).ok}

\* C29: any two BufferBlockPools constructed in the process have different
\* uniqueness ids, however the calls of BufferBlockPool::new on several
\* threads interleave, so that no handle of one pool carries the id of
\* another: the pool of thread t finds nothing under a handle that carries
\* the id of the pool of thread u.  A call that failed has used up an id of
\* its own as well.
C29_PoolIdsAreUnique ==
    /\ \A t, u \in 1..MaxThreads :
          (t # u /\ IsSome(constructing[t].uuid) /\ IsSome(constructing[u].uuid)) =>
             constructing[t].uuid # constructing[u].uuid
    /\ \A t \in 1..MaxThreads :
          IsSome(constructing[t].uuid) =>
             /\ Unwrap(constructing[t].uuid) # pool.uuid
             /\ Unwrap(constructing[t].uuid) < BUFFER_BLOCK_POOL_UUID
    /\ \A t \in ConstructedPools :
          /\ Unwrap(ResultOf(t).pool).uuid = Unwrap(constructing[t].uuid)
          /\ Unwrap(ResultOf(t).pool).uuid # pool.uuid
          /\ \A u \in ConstructedPools :
                t # u =>
                   /\ Unwrap(ResultOf(t).pool).uuid # Unwrap(ResultOf(u).pool).uuid
                   /\ \A i \in IndicesUpTo(Unwrap(ResultOf(t).pool).owned_blocks) :
                         get_block(Unwrap(ResultOf(t).pool),
                                   BufferBlock(Unwrap(ResultOf(u).pool).uuid, i)) = None

\* Two threads were inside BufferBlockPool::new at the same time (the second
\* took its id before the first had finished) and both constructed a pool.
C29_Witness ==
    \E t, u \in ConstructedPools :
        /\ t # u
        /\ constructing[u].overlapped
        /\ Unwrap(constructing[u].uuid) > Unwrap(constructing[t].uuid)

\* C26: Device::destroy_buffer_view(v) destroys the buffer view v refers to
\* and nothing else: afterwards get_buffer_view(v) returns none, and every
\* buffer of the ResourceSet that resolved before the call still resolves.
C26_DestroyBufferViewDestroysOnlyView ==
    \A v \in BufferViewHandles, ok \in BOOLEAN :
        LET r == Device_destroy_buffer_view(resources, gateway, v, ok)
        IN  /\ get_buffer_view(r.rs, v) = None
            /\ \A h \in BufferHandles :
                  IsSome(get_buffer(resources, h)) => IsSome(get_buffer(r.rs, h))

\* ------------------------------------------------------------------------
\* The Device's block requests and the per-frame used lists
\* ------------------------------------------------------------------------
\* A Device whose four pools were constructed one after the other (ids 0 to
\* 3): the vertex, index and uniform pools ask for device-local memory and
\* get the memory type the allocator names, the staging pool does not.
InitFrames ==
    /\ \E block_size \in BlockSizes :
       \E vbo_type \in find_memory_type_index_for_buffer_info(BufferCreateInfo(
               "DeviceDynamic", block_size, {"VERTEX_BUFFER", "TRANSFER_DST"})) \ {None} :
       \E ibo_type \in find_memory_type_index_for_buffer_info(BufferCreateInfo(
               "DeviceDynamic", block_size, {"INDEX_BUFFER", "TRANSFER_DST"})) \ {None} :
       \E ubo_type \in find_memory_type_index_for_buffer_info(BufferCreateInfo(
               "DeviceDynamic", block_size, {"UNIFORM_BUFFER", "TRANSFER_DST"})) \ {None} :
       \E cpu_type \in find_memory_type_index_for_buffer_info(BufferCreateInfo(
               "Host", block_size, {"TRANSFER_SRC"})) \ {None} :
          LET new(uuid, usage, device_local, gpu_type) ==
                  Unwrap(BufferBlockPool_new(uuid, block_size, usage, device_local,
                                             gpu_type, cpu_type).pool)
          IN  /\ device = DeviceNew(BufferBlockSet(
                             new(0, {"VERTEX_BUFFER"}, TRUE, vbo_type),
                             new(1, {"INDEX_BUFFER"}, TRUE, ibo_type),
                             new(2, {"UNIFORM_BUFFER"}, TRUE, ubo_type),
                             new(3, {"TRANSFER_SRC"}, FALSE, cpu_type)))
              /\ pool = new(0, {"VERTEX_BUFFER"}, TRUE, vbo_type)
    /\ BUFFER_BLOCK_POOL_UUID = 4
    /\ resources = ResourceSetNew
    /\ gateway = GatewayInit
    /\ fatal = None
    /\ removed_blocks = {}
    /\ removed_buffers = {}
    /\ recycled_ok = {}
    /\ issued_bufs = {}
    /\ stale_reset = {}
    /\ stale_recycled = {}
    /\ ops = 0
    /\ nodrops = [held |-> <<>>, released |-> None]
    /\ constructing = [t \in 1..MaxThreads |-> NotConstructing]
    /\ fresh_allocations = 0
    /\ requesting = [t \in 1..MaxThreads |-> NotRequesting]
    /\ returned = EmptyBag
    /\ locks = LocksFree
    /\ mip = NotCounting

\* One of the four request calls took effect.
Requested(r) ==
    /\ device' = r.dev
    /\ gateway' = r.gw
    /\ fatal' = IF r.panic THEN Some(<<"unwrap on None">>) ELSE None
    /\ UNCHANGED <<requesting, returned, locks, mip, fresh_allocations, BUFFER_BLOCK_POOL_UUID, pool, resources, removed_blocks,
                   removed_buffers, recycled_ok, issued_bufs, stale_reset,
                   stale_recycled, ops, nodrops, constructing>>

RequestVertexBlock ==
    /\ fatal = None
    /\ \E size \in MinSizes, tag \in Tags, ans \in GatewayAnswers :
         Requested(Device_request_vertex_block(device, gateway, size, tag, ans[1], ans[2]))

RequestIndexBlock ==
    /\ fatal = None
    /\ \E size \in MinSizes, tag \in Tags, ans \in GatewayAnswers :
         Requested(Device_request_index_block(device, gateway, size, tag, ans[1], ans[2]))

RequestUniformBlock ==
    /\ fatal = None
    /\ \E size \in MinSizes, tag \in Tags, ans \in GatewayAnswers :
         Requested(Device_request_uniform_block(device, gateway, size, tag, ans[1], ans[2]))

RequestStagingBlock ==
    /\ fatal = None
    /\ \E size \in MinSizes, tag \in Tags, ans \in GatewayAnswers :
         Requested(Device_request_staging_block(device, gateway, size, tag, ans[1], ans[2]))

\* Every operation of Device that touches the BufferBlockSet or the
\* per-frame lists.  Nothing in the crate reads a used list, advances
\* current_frame_index or recycles a Block on the Device's behalf.
NextFrames ==
    \/ RequestVertexBlock
    \/ RequestIndexBlock
    \/ RequestUniformBlock
    \/ RequestStagingBlock

\* The Device keeps serving requests as long as one can change anything.
SpecFrames == InitFrames /\ [][NextFrames]_vars /\ WF_vars(NextFrames)

\* The usage classes: the pool of each and its used list.
UsageClasses ==
    {[pool_f |-> "vbo_pool", used_f |-> "used_vbo_blocks"],
     [pool_f |-> "ibo_pool", used_f |-> "used_ibo_blocks"],
     [pool_f |-> "ubo_pool", used_f |-> "used_ubo_blocks"],
     [pool_f |-> "staging_pool", used_f |-> "used_staging_blocks"]}

\* The handle of usage class c at slot i: what its pool issues while no
\* Block was removed from it.
FrameHandle(c, i) == BufferBlock(device.blocks[c.pool_f].uuid, Index(i, 0))

\* The handles on the used list of class c in the current frame.
UsedNow(c) ==
    {device.per_frame[device.current_frame_index + 1][c.used_f][k] :
        k \in 1..Len(device.per_frame[device.current_frame_index + 1][c.used_f])}

\* C27: every block handle a request function of Device returned is on the
\* current frame's used list of its class, and the Block is recycled or
\* destroyed without the caller recycling it: a handle on a used list
\* eventually no longer resolves to a checked-out Block.
C27_UsedBlocksAreReleased ==
    /\ [](\A c \in UsageClasses :
            \A i \in ArenaIndices(device.blocks[c.pool_f].owned_blocks) :
               BufferBlock(device.blocks[c.pool_f].uuid, i) \in UsedNow(c))
    /\ \A c \in UsageClasses : \A i \in 0..(MaxPools - 1) :
          (FrameHandle(c, i) \in UsedNow(c))
              ~> (get_block(device.blocks[c.pool_f], FrameHandle(c, i)) = None)

\* ------------------------------------------------------------------------
\* The life of a block handle
\* ------------------------------------------------------------------------
\* Every handle request_block or allocate_block returned so far: a Block
\* leaves the live arena only through recycle_block, which records it.
ReturnedBlocks == LiveBlocks \cup removed_blocks

\* C30: a block handle resolves through get_block exactly while its Block
\* is checked out: every handle the pool returned resolves until the first
\* successful recycle_block on it and never afterwards, and a handle that
\* request_block or allocate_block returns differs from every handle the
\* pool returned before.
C30_HandleResolvesWhileCheckedOut ==
    /\ \A h \in ReturnedBlocks :
          IsSome(get_block(pool, h)) <=> h \notin recycled_ok
    /\ \A min_size \in MinSizes, tag \in Tags, ans \in GatewayAnswers :
          LET r == request_block(pool, gateway, min_size, tag, ans[1], ans[2])
              a == allocate_block(pool, gateway, min_size, tag, ans[1], ans[2])
          IN  /\ r.ok => Unwrap(r.handle) \notin ReturnedBlocks
              /\ a.ok => Unwrap(a.handle) \notin ReturnedBlocks

\* ------------------------------------------------------------------------
\* Conservation of Blocks
\* ------------------------------------------------------------------------
\* No recycle_block lost its Block to a failed buffer destruction: every
\* Block that left the live arena did so in a successful recycle_block.
NoDestructionFailed == removed_blocks \subseteq recycled_ok

\* C31: as long as no buffer destruction failed, the Blocks in the live
\* arena and the Blocks on the recycle list are, together, as many as the
\* successful fresh allocations the pool performed.
C31_BlocksAreConserved ==
    NoDestructionFailed =>
        pool.owned_blocks.len + Len(pool.recycled_blocks) = fresh_allocations

\* Two Blocks were allocated and both are live, one of them after it was
\* recycled and revived.
C31_Witness ==
    /\ NoDestructionFailed
    /\ fresh_allocations = 2
    /\ pool.owned_blocks.len = 2
    /\ Len(pool.recycled_blocks) = 0
    /\ recycled_ok # {}

\* ------------------------------------------------------------------------
\* The recycle list
\* ------------------------------------------------------------------------
\* C32: every Block on the recycle list has an empty buffer arena, so the
\* Block that request_block revives starts with no buffers.
C32_RecycledBlocksHoldNoBuffers ==
    /\ \A k \in 1..Len(pool.recycled_blocks) :
          /\ pool.recycled_blocks[k].allocated_buffers.len = 0
          /\ ArenaIndices(pool.recycled_blocks[k].allocated_buffers) = {}
    /\ Len(pool.recycled_blocks) > 0 =>
          \A min_size \in 1..pool.block_size, tag \in Tags, ans \in GatewayAnswers :
             LET r == request_block(pool, gateway, min_size, tag, ans[1], ans[2])
                 B == Unwrap(get_block(r.pool, Unwrap(r.handle)))
             IN  /\ r.ok
                 /\ B.allocated_buffers.len = 0
                 /\ ArenaIndices(B.allocated_buffers) = {}

\* A Block that held buffers when it was recycled is on the recycle list.
C32_Witness ==
    \E s \in stale_recycled : \E k \in 1..Len(pool.recycled_blocks) :
        pool.recycled_blocks[k].gpu = s.gpu

\* ------------------------------------------------------------------------
\* Allocator-pools and their owners
\* ------------------------------------------------------------------------
\* The allocator-pools allocated at the gateway: every one it created, as
\* nothing in the crate gives an allocator-pool back.
AllocatedPools(gw) == 1..Len(gw.pool_size)

\* The allocator-pools the Blocks of pool p own, live or recycled.
OwnedPools(p) ==
    LET blocks == ArenaValues(p.owned_blocks)
                      \cup {p.recycled_blocks[k] : k \in 1..Len(p.recycled_blocks)}
    IN  {b.gpu : b \in blocks} \cup {Unwrap(b.cpu) : b \in {c \in blocks : IsSome(c.cpu)}}

\* C33: when allocate_block fails at the creation of the CPU staging
\* allocator-pool, after the GPU allocator-pool was created, the call
\* leaves the live arena and the recycle list as they were, and no
\* allocator-pool it created stays allocated without a Block owning it.
C33_FailedStagingPoolLeaksNothing ==
    IsSome(pool.cpu_memory_type_index) /\ Len(gateway.pool_size) < MaxPools =>
        \A min_size \in MinSizes, tag \in Tags :
           LET r == allocate_block(pool, gateway, min_size, tag, TRUE, FALSE)
           IN  /\ ~r.ok
               /\ r.pool = pool
               /\ AllocatedPools(r.gw) \ AllocatedPools(gateway) \subseteq OwnedPools(r.pool)

\* ------------------------------------------------------------------------
\* Device::create_buffer
\* ------------------------------------------------------------------------
\* C34: Device::create_buffer returns after its own activation alone, and
\* on success it inserted exactly one buffer into the ResourceSet and
\* created exactly one at the gateway, the one its handle resolves to;
\* without initial data too it creates no further buffer and does not
\* call itself.
C34_CreateBufferInsertsOne ==
    \A create_info \in CreateInfos, tag \in Tags, has_data \in BOOLEAN :
    \A fuel \in 0..(MaxBuffers - gateway.buffers) :
       LET r == Device_create_buffer(resources, gateway, create_info, tag,
                                     has_data, fuel)
       IN  /\ r.calls = 1
           /\ r.ok =>
                /\ r.rs.buffers.len = resources.buffers.len + 1
                /\ r.gw.buffers = gateway.buffers + 1
                /\ ArenaIndices(r.rs.buffers) =
                      ArenaIndices(resources.buffers) \cup {Unwrap(r.handle).idx}
                /\ IsSome(get_buffer(r.rs, Unwrap(r.handle)))
                /\ Unwrap(get_buffer(r.rs, Unwrap(r.handle))).buffer = r.gw.buffers

\* ------------------------------------------------------------------------
\* Concurrent calls of the Device's request functions
\* ------------------------------------------------------------------------
\* The upload queue of a usage class; the staging class has none.
QueueOf(c) ==
    CASE c.pool_f = "vbo_pool" -> Some("vbo_upload_queue")
      [] c.pool_f = "ibo_pool" -> Some("ibo_upload_queue")
      [] c.pool_f = "ubo_pool" -> Some("ubo_upload_queue")
      [] OTHER -> None

\* request_staging_block takes the BufferBlockSet's guard as a temporary of
\* its first statement; the other three bind `pool` to a field behind the
\* guard, which therefore lives to the end of the function.
GuardIsTemporary(c) == c.pool_f = "staging_pool"

\* A guard that is forgotten instead of dropped: the lock stays held.
Release_forgets_guard(l, t) == l

\* The thread that holds a lock gives it back.
Release(l, t) == IF l = Some(t) THEN None ELSE l

\* A push onto the used list of the frame after the current one.
push_used_next_frame(dev, used_f, handle) ==
    [dev EXCEPT
        !.per_frame[((dev.current_frame_index + 1) % FramesInFlight) + 1][used_f] =
            Append(@, handle)]

\* self.per_frame[self.current_frame_index] ... .used_*_blocks.push(handle).
push_used(dev, used_f, handle) ==
    [dev EXCEPT !.per_frame[dev.current_frame_index + 1][used_f] = Append(@, handle)]

\* The size the threads ask for.
RequestSizes == {1}

\* The Device the threads share: as in InitFrames, with one memory type for
\* the three device-local pools.
InitConcurrent ==
    /\ InitFrames
    /\ device.blocks.ibo_pool.gpu_memory_type_index = device.blocks.vbo_pool.gpu_memory_type_index
    /\ device.blocks.ubo_pool.gpu_memory_type_index = device.blocks.vbo_pool.gpu_memory_type_index

\* A thread enters one of the four request functions.
ThreadCall(t) ==
    /\ fatal = None
    /\ requesting[t].pc = "idle"
    /\ \E c \in UsageClasses, size \in RequestSizes, tag \in Tags :
         requesting' = [requesting EXCEPT ![t] =
             [pc |-> "called", class |-> Some(c), size |-> size, tag |-> tag,
              handle |-> None]]
    /\ UNCHANGED <<core, ops, nodrops, constructing, device, fresh_allocations,
                   returned, locks, mip>>

\* self.buffer_blocks_mut(): blocks.write() returns once no other thread
\* holds the lock.
AcquireBlocks(t) ==
    /\ fatal = None
    /\ requesting[t].pc = "called"
    /\ locks.blocks = None
    /\ locks' = [locks EXCEPT !.blocks = Some(t)]
    /\ requesting' = [requesting EXCEPT ![t].pc = "blocks_locked"]
    /\ UNCHANGED <<core, ops, nodrops, constructing, device, fresh_allocations,
                   returned, mip>>

\* pool.request_block(size, tag)?: on an error the function returns it and
\* the guard is dropped; on success the staging function drops the guard
\* at the end of the statement.
RequestFromPool(t) ==
    /\ fatal = None
    /\ requesting[t].pc = "blocks_locked"
    /\ \E ans \in GatewayAnswers :
         LET c == Unwrap(requesting[t].class)
             r == request_block(device.blocks[c.pool_f], gateway,
                                requesting[t].size, requesting[t].tag, ans[1], ans[2])
         IN  /\ gateway' = r.gw
             /\ device' = [device EXCEPT !.blocks[c.pool_f] = r.pool]
             /\ requesting' = [requesting EXCEPT ![t] =
                  IF r.ok
                  THEN [@ EXCEPT !.pc = "requested", !.handle = r.handle]
                  ELSE NotRequesting]
             /\ locks' = IF ~r.ok \/ GuardIsTemporary(c)
                         THEN [locks EXCEPT !.blocks = Release(@, t)]
                         ELSE locks
    /\ UNCHANGED <<BUFFER_BLOCK_POOL_UUID, pool, resources, fatal, removed_blocks,
                   removed_buffers, recycled_ok, issued_bufs, stale_reset,
                   stale_recycled, ops, nodrops, constructing, fresh_allocations,
                   returned, mip>>

\* self.per_frame[self.current_frame_index].write().
AcquireFrame(t) ==
    /\ fatal = None
    /\ requesting[t].pc = "requested"
    /\ locks.per_frame[device.current_frame_index + 1] = None
    /\ locks' = [locks EXCEPT !.per_frame[device.current_frame_index + 1] = Some(t)]
    /\ requesting' = [requesting EXCEPT ![t].pc = "frame_locked"]
    /\ UNCHANGED <<core, ops, nodrops, constructing, device, fresh_allocations,
                   returned, mip>>

\* The bag of returned handles after a call of class c returned handle.
Returned(c, handle) == returned (+) SetToBag({[class |-> c, handle |-> handle]})

\* .used_*_blocks.push(handle), after which the per-frame guard is dropped.
\* The staging function returns here.  The others look the Block up again
\* (an unwrap, which panics on None) and return unless it requires an
\* upload, dropping the BufferBlockSet's guard.
PushUsed(t) ==
    /\ fatal = None
    /\ requesting[t].pc = "frame_locked"
    /\ LET c == Unwrap(requesting[t].class)
           handle == Unwrap(requesting[t].handle)
           block == get_block(device.blocks[c.pool_f], handle)
           panics == ~GuardIsTemporary(c) /\ ~IsSome(block)
           returns == /\ ~panics
                      /\ GuardIsTemporary(c) \/ ~requires_upload(Unwrap(block))
       IN  /\ device' = push_used(device, c.used_f, handle)
           /\ fatal' = IF panics THEN Some(<<"unwrap on None">>) ELSE None
           /\ requesting' = [requesting EXCEPT ![t] =
                  IF returns \/ panics THEN NotRequesting ELSE [@ EXCEPT !.pc = "pushed"]]
           /\ returned' = IF returns THEN Returned(c, handle) ELSE returned
           /\ locks' = [locks EXCEPT
                  !.per_frame[device.current_frame_index + 1] = Release(@, t),
                  !.blocks = IF returns \/ panics THEN Release(@, t) ELSE @]
    /\ UNCHANGED <<BUFFER_BLOCK_POOL_UUID, pool, resources, gateway, removed_blocks,
                   removed_buffers, recycled_ok, issued_bufs, stale_reset,
                   stale_recycled, ops, nodrops, constructing, fresh_allocations, mip>>

\* self.*_upload_queue.write().
AcquireQueue(t) ==
    /\ fatal = None
    /\ requesting[t].pc = "pushed"
    /\ LET q == Unwrap(QueueOf(Unwrap(requesting[t].class)))
       IN  /\ locks[q] = None
           /\ locks' = [locks EXCEPT ![q] = Some(t)]
    /\ requesting' = [requesting EXCEPT ![t].pc = "queue_locked"]
    /\ UNCHANGED <<core, ops, nodrops, constructing, device, fresh_allocations,
                   returned, mip>>

\* .push(handle) on the upload queue; the queue's guard is dropped, the
\* function returns Ok(handle) and the BufferBlockSet's guard is dropped.
PushUpload(t) ==
    /\ fatal = None
    /\ requesting[t].pc = "queue_locked"
    /\ LET q == Unwrap(QueueOf(Unwrap(requesting[t].class)))
           handle == Unwrap(requesting[t].handle)
       IN  /\ device' = [device EXCEPT ![q] = Append(@, handle)]
           /\ locks' = [locks EXCEPT ![q] = Release(@, t), !.blocks = Release(@, t)]
           /\ requesting' = [requesting EXCEPT ![t] = NotRequesting]
           /\ returned' = Returned(Unwrap(requesting[t].class), handle)
    /\ UNCHANGED <<core, ops, nodrops, constructing, fresh_allocations, mip>>

\* What a thread does once it is inside a request function.
ThreadStep(t) ==
    \/ AcquireBlocks(t)
    \/ RequestFromPool(t)
    \/ AcquireFrame(t)
    \/ PushUsed(t)
    \/ AcquireQueue(t)
    \/ PushUpload(t)

NextConcurrent ==
    \E t \in 1..MaxThreads :
        \/ ThreadCall(t)
        \/ ThreadStep(t)

\* Every thread inside a call keeps running, and a lock that is free again
\* and again is eventually given to a thread that waits for it.
SpecConcurrent ==
    InitConcurrent /\ [][NextConcurrent]_vars /\ \A t \in 1..MaxThreads : SF_vars(ThreadStep(t))

\* The locks thread t holds.
HoldsBlocks(t) == locks.blocks = Some(t)

HoldsFrame(t) == \E f \in 1..FramesInFlight : locks.per_frame[f] = Some(t)

HoldsQueue(t) ==
    \E q \in {"vbo_upload_queue", "ibo_upload_queue", "ubo_upload_queue"} :
        locks[q] = Some(t)

\* The order of acquisition: a thread about to take the BufferBlockSet's
\* lock holds no lock, a thread about to take a per-frame lock holds
\* neither a per-frame lock nor an upload queue's, and a thread about to
\* take an upload queue's lock holds none of those.
LockOrder ==
    \A t \in 1..MaxThreads :
        /\ requesting[t].pc \in {"idle", "called"} =>
              ~HoldsBlocks(t) /\ ~HoldsFrame(t) /\ ~HoldsQueue(t)
        /\ requesting[t].pc = "requested" => ~HoldsFrame(t) /\ ~HoldsQueue(t)
        /\ requesting[t].pc = "pushed" => ~HoldsQueue(t) /\ ~HoldsFrame(t)

\* Some thread is inside a request function.
SomeCallUnderWay == \E t \in 1..MaxThreads : requesting[t].pc # "idle"

\* C35: concurrent calls of the four request functions never deadlock: the
\* locks are acquired in the one order BufferBlockSet, per-frame, upload
\* queue; while a call is under way some thread inside a call can take a
\* step; and every call returns, that is, every thread is outside the
\* request functions again and again.
C35_RequestsNeverDeadlock ==
    /\ [](LockOrder)
    /\ [](SomeCallUnderWay => \E t \in 1..MaxThreads : ENABLED ThreadStep(t))
    /\ \A t \in 1..MaxThreads : []<>(requesting[t].pc = "idle")

\* A thread in request_staging_block waits for the per-frame lock that a
\* thread holds together with the BufferBlockSet's lock.
C35_Witness ==
    \E t, u \in 1..MaxThreads :
        /\ requesting[t].pc = "frame_locked"
        /\ HoldsBlocks(t)
        /\ requesting[u].pc = "requested"
        /\ locks.per_frame[device.current_frame_index + 1] = Some(t)

\* How often handle occurs on the used list of class c in the current frame.
TimesUsed(c, handle) ==
    Cardinality({k \in 1..Len(device.per_frame[device.current_frame_index + 1][c.used_f]) :
                    device.per_frame[device.current_frame_index + 1][c.used_f][k] = handle})

\* The handles of the calls of class c that pushed onto the used list and
\* have not returned yet.
PushedUnderWay(c) ==
    {Unwrap(requesting[t].handle) :
        t \in {u \in 1..MaxThreads : /\ requesting[u].pc \in {"pushed", "queue_locked"}
                                     /\ requesting[u].class = Some(c)}}

\* C36: however the concurrent calls interleave, no handle was returned by
\* two successful calls, every returned handle is exactly once on the
\* current frame's used list of its class, and that list holds nothing
\* else but the handles of successful calls about to return: a failed call
\* appended nothing.
C36_ReturnedHandlesDistinctAndUsedOnce ==
    /\ \A e \in BagToSet(returned) :
          /\ CopiesIn(e, returned) = 1
          /\ TimesUsed(e.class, e.handle) = 1
    /\ \A c \in UsageClasses :
          /\ UsedNow(c) = {e.handle : e \in {x \in BagToSet(returned) : x.class = c}}
                              \cup PushedUnderWay(c)
          /\ Len(device.per_frame[device.current_frame_index + 1][c.used_f])
                = Cardinality(UsedNow(c))

\* Two calls of one class returned, and two calls are under way, one of
\* them waiting for the lock the other holds.
C36_Witness ==
    /\ \E e, x \in BagToSet(returned) : e.class = x.class /\ e.handle # x.handle
    /\ \E t, u \in 1..MaxThreads :
          /\ requesting[t].pc = "called"
          /\ requesting[u].pc = "blocks_locked"

\* ------------------------------------------------------------------------
\* The order of reuse
\* ------------------------------------------------------------------------
\* C37: the recycle list is reused last in, first out.  recycle_block puts
\* the Block behind the Blocks already on the list, and request_block with
\* min_size <= the default size revives the Block at the end of the list,
\* the one recycled most recently, and leaves the others in their order.
C37_RecycleListIsLifo ==
    LET n == Len(pool.recycled_blocks)
    IN  /\ \A h \in LiveBlocks :
              LET r1 == recycle_block(pool, gateway, h, 0)
              IN  r1.err = "Ok" =>
                    /\ Len(r1.pool.recycled_blocks) = n + 1
                    /\ SubSeq(r1.pool.recycled_blocks, 1, n) = pool.recycled_blocks
                    /\ r1.pool.recycled_blocks[n + 1].gpu = BlockOf(h).gpu
                    /\ \A min_size \in 1..pool.block_size, tag \in Tags, ans \in GatewayAnswers :
                          LET r2 == request_block(r1.pool, r1.gw, min_size, tag, ans[1], ans[2])
                          IN  /\ r2.ok
                              /\ Unwrap(get_block(r2.pool, Unwrap(r2.handle))).gpu = BlockOf(h).gpu
                              /\ r2.pool.recycled_blocks = pool.recycled_blocks
        /\ n > 0 =>
              \A min_size \in 1..pool.block_size, tag \in Tags, ans \in GatewayAnswers :
                 LET r == request_block(pool, gateway, min_size, tag, ans[1], ans[2])
                 IN  /\ r.ok
                     /\ Unwrap(get_block(r.pool, Unwrap(r.handle))).gpu
                            = pool.recycled_blocks[n].gpu
                     /\ r.pool.recycled_blocks = SubSeq(pool.recycled_blocks, 1, n - 1)

\* Two Blocks are on the recycle list.
C37_Witness ==
    /\ Len(pool.recycled_blocks) >= 2
    /\ pool.recycled_blocks[1].gpu # pool.recycled_blocks[2].gpu
    /\ Cardinality(recycled_ok) >= 2

\* ------------------------------------------------------------------------
\* What a revived Block keeps
\* ------------------------------------------------------------------------
\* The tags a caller may pass to request_block and allocate_block: none, or
\* one of the tags callers use.
OptionTags == {None} \cup {Some(t) : t \in TagInputs}

\* C38: a Block revived from the recycle list is the Block as it lay on the
\* list but for its self-identity: it keeps the diagnostic tag, size,
\* usage, domain and allocator-pools of its original allocation, whatever
\* tag the reviving request_block was given.
C38_RevivedBlockKeepsTag ==
    /\ Len(pool.recycled_blocks) > 0 =>
          \A min_size \in 1..pool.block_size, tag \in OptionTags :
             LET r == request_block(pool, gateway, min_size, tag, TRUE, TRUE)
             IN  /\ r.ok
                 /\ Unwrap(get_block(r.pool, Unwrap(r.handle)))
                       = [pool.recycled_blocks[Len(pool.recycled_blocks)]
                             EXCEPT !.self_id = r.handle]
    /\ \A tag1, tag2 \in OptionTags :
          LET a == allocate_block(pool, gateway, 1, tag1, TRUE, TRUE)
              A == Unwrap(get_block(a.pool, Unwrap(a.handle)))
              c == recycle_block(a.pool, a.gw, Unwrap(a.handle), 0)
              r == request_block(c.pool, c.gw, 1, tag2, TRUE, TRUE)
              B == Unwrap(get_block(r.pool, Unwrap(r.handle)))
          IN  a.ok =>
                /\ c.err = "Ok"
                /\ r.ok
                /\ B.size = A.size /\ B.usage = A.usage /\ B.domain = A.domain
                /\ B.gpu = A.gpu /\ B.cpu = A.cpu
                /\ B.self_id = r.handle /\ B.self_id # A.self_id
                /\ B.nodrop = A.nodrop
                /\ B.nodrop = IF IsSome(tag1) THEN NoDrop_new(Unwrap(tag1))
                              ELSE NoDrop_from_str("Generic OwnedBufferBlock")

\* The one Block the pool allocated is live again after it was recycled,
\* and the gateway can still give allocator-pools.
C38_Witness ==
    /\ fresh_allocations = 1
    /\ pool.owned_blocks.len = 1
    /\ recycled_ok # {}
    /\ removed_blocks = recycled_ok
    /\ allocate_block(pool, gateway, 1, None, TRUE, TRUE).ok

\* ------------------------------------------------------------------------
\* mip_levels_from_extent
\* ------------------------------------------------------------------------
\* A dimension with 31 significant bits, the widest TLC's integers hold; a
\* u32 has one bit more, which the loop treats like the others.
WideDimension == 2147483647

\* Largest small dimension of the extents tried.
MaxExtent == 4

\* The values a dimension of an Extent3D takes: the small ones, and a wide
\* one.
Dimensions == (0..MaxExtent) \cup {WideDimension}

Extent3D(width, height, depth) == [width |-> width, height |-> height, depth |-> depth]

\* u32::max.
u32_max(a, b) == IF a >= b THEN a ELSE b

\* x >> 1 on a u32: the result is below x, so it fits.
u32_shr1(x) == x \div 2

\* The largest of width and height alone.
largest_dimension_flat(extent) == u32_max(extent.width, extent.height)

\* extent.width.max(extent.height).max(extent.depth).
largest_dimension(extent) == u32_max(u32_max(extent.width, extent.height), extent.depth)

\* mip_levels_from_extent is called: `largest` and `levels` are set up.
MipCall ==
    /\ mip.pc = "idle"
    /\ \E w, h, d \in Dimensions :
         mip' = [pc |-> "loop", extent |-> Some(Extent3D(w, h, d)),
                 largest |-> largest_dimension(Extent3D(w, h, d)), levels |-> 0]
    /\ UNCHANGED <<core, ops, nodrops, constructing, device, fresh_allocations,
                   requesting, returned, locks>>

\* One turn of the loop: break when largest is 0, otherwise count a level
\* and shift.  levels counts the bits of a u32, at most 32.
MipLoop ==
    /\ mip.pc = "loop"
    /\ mip' = IF mip.largest = 0
              THEN [mip EXCEPT !.pc = "done"]
              ELSE [mip EXCEPT !.levels = @ + 1,
                               !.largest = u32_shr1(@)]
    /\ UNCHANGED <<core, ops, nodrops, constructing, device, fresh_allocations,
                   requesting, returned, locks>>

\* The caller takes the result.
MipReturn ==
    /\ mip.pc = "done"
    /\ mip' = NotCounting
    /\ UNCHANGED <<core, ops, nodrops, constructing, device, fresh_allocations,
                   requesting, returned, locks>>

NextMip ==
    \/ MipCall
    \/ MipLoop
    \/ MipReturn

\* The function, once called, keeps running.
SpecMip == Init /\ [][NextMip]_vars /\ WF_vars(MipLoop)

\* floor(log2(n)) for n >= 1.
RECURSIVE FloorLog2(_)
FloorLog2(n) == IF n <= 1 THEN 0 ELSE 1 + FloorLog2(n \div 2)

\* The largest of three numbers, as a set maximum.
MaxOf(S) == CHOOSE m \in S : \A x \in S : x <= m

\* C39: mip_levels_from_extent terminates for every extent, and returns 0
\* when width, height and depth are all 0 and otherwise
\* floor(log2(max(width, height, depth))) + 1.
C39_MipLevels ==
    /\ [](mip.pc = "done" =>
            LET e == Unwrap(mip.extent)
                m == MaxOf({e.width, e.height, e.depth})
            IN  mip.levels = IF m = 0 THEN 0 ELSE FloorLog2(m) + 1)
    /\ []<>(mip.pc # "loop")

\* The function returned two levels for an extent whose largest dimension
\* is its depth, 3, which is not a power of two.
C39_Witness ==
    /\ mip.pc = "done"
    /\ mip.levels = 2
    /\ Unwrap(mip.extent).depth = 3
    /\ Unwrap(mip.extent).depth > Unwrap(mip.extent).width
    /\ Unwrap(mip.extent).depth > Unwrap(mip.extent).height
    /\ Unwrap(mip.extent).width > 0

====
